---- MODULE Spec2Model ----
(***************************************************************************)
(* Juicebox: the content-dispatch pipeline.                                *)
(*                                                                         *)
(* Strings whose characters matter (URLs, content types, bodies, rendered  *)
(* markdown, exception messages built from a URL) are sequences of         *)
(* one-character strings.  Python's None is the empty sequence and a       *)
(* present value x is <<x>> (None / Some).  A call either returns a value  *)
(* or raises: Return(v) / Raise(exc, msg).                                 *)
(*                                                                         *)
(* The specifications:                                                     *)
(*   Spec              the running app (app.py): tabs, submit, refresh     *)
(*   SpecFetch         fetch_markdown (app.py) and handle_unknown          *)
(*                     (sites/unknown.py) applied to bounded inputs        *)
(*   SpecRegistry      the interaction registry and the site-handler list  *)
(*   SpecRedditPath    get_reddit_path and _get_json_url                   *)
(*   SpecReddit        one call of a Reddit handler                        *)
(*   SpecHistory       the history table (history.py): record and prune    *)
(*   SpecHistorySearch the history table: record and search                *)
(*   SpecFlatHistory   history.json (app.py), calls one after the other    *)
(*   SpecHistoryRace   history.json, two processes saving at once          *)
(*   SpecThumbnail     posts rendered with their thumbnails, image cache   *)
(***************************************************************************)
EXTENDS Integers, Sequences, FiniteSets, TLC

VARIABLES
    \* ---- Spec: JuiceboxApp (app.py) and the history file ----
    tabs,           \* ids of the Tab widgets of the Tabs bar, left to right
    active,         \* Tabs.active_tab.id: None or Some(id)
    tabCounter,     \* the Tabs widget's id counter (ids are tab-1, tab-2, ...)
    tab_content,    \* JuiceboxApp.tab_content: tab id -> None | Some(PageResult)
    current_page,   \* JuiceboxApp.current_page
    current_tabs,   \* JuiceboxApp.current_tabs
    content,        \* what the Markdown widget was last updated with
    history,        \* the contents of history.json, newest first
    appState,       \* "running", or "crashed" after an unhandled exception
    lastOp,         \* the handler that ran last (and the value submitted to it)
    \* ---- SpecFetch: one call of a handler function ----
    fFunc,          \* "none", "fetch_markdown" or "handle_unknown"
    fInput,         \* the url argument
    fScheme,        \* settings.default_scheme
    fNet,           \* what the network did with the request (None: no request)
    fRequests,      \* the URLs requested, in order
    fResult,        \* None before the call, Some(Return(..) | Raise(..)) after
    \* ---- SpecRegistry ----
    registry,       \* _INTERACTION_REGISTRY: domain -> handler
    regLog,         \* every interaction(domain)(handler) call so far, in order
    lookup,         \* the last registry lookup / handler selection and its answer
    \* ---- SpecRedditPath: the pure functions of interactions/reddit.py ----
    rUrl,           \* the url given to get_reddit_path (None: none given)
    rComps,         \* None, or Some(outcome of get_reddit_path) / Some(Return(c))
    rJson,          \* None, or Some(what _get_json_url returned for rComps)
    \* ---- SpecHistory: the history table (history.py) ----
    db,             \* the rows of the HistoryEntry table
    clock,          \* the wall clock, in ticks
    histOp,         \* the last save_url_to_history call and what it read
    \* ---- SpecFlatHistory, SpecHistoryRace: history.json on disk ----
    histFile,       \* the file: whether it exists, and its text
    saveLog,        \* the URLs given to save_url_to_history so far, in order
    savers,         \* per process: where it is in save_url_to_history
    \* ---- SpecThumbnail: the image cache of interactions/reddit.py ----
    cache,          \* the files of the cache directory
    fetched,        \* thumbnail URLs a request has brought the image of
    thumbOp         \* the last post rendered and what rendering it did

appVars == <<tabs, active, tabCounter, tab_content, current_page, current_tabs,
             content, history, appState, lastOp>>
fetchVars == <<fFunc, fInput, fScheme, fNet, fRequests, fResult>>
regVars == <<registry, regLog, lookup>>
redditVars == <<rUrl, rComps, rJson>>
dbVars == <<db, clock, histOp>>
diskVars == <<histFile, saveLog, savers, cache, fetched, thumbOp>>
vars == <<appVars, fetchVars, regVars, redditVars, dbVars, diskVars>>

-----------------------------------------------------------------------------
(* Python values *)

None == <<>>
Some(x) == <<x>>
IsNone(o) == o = <<>>
IsSome(o) == o # <<>>
TheValue(o) == o[1]

Return(v) == [kind |-> "return", value |-> v]
Raise(exc, msg) == [kind |-> "raise", exc |-> exc, msg |-> msg]
Returned(r) == r.kind = "return"
Raised(r) == r.kind = "raise"

\* dict.get(key, default) on keyword arguments / mappings
Get(d, k, default) == IF k \in DOMAIN d THEN d[k] ELSE default

-----------------------------------------------------------------------------
(* Python str operations on character sequences *)

Whitespace == {" ", "\t", "\n"}

SetMin(S) == CHOOSE x \in S : \A y \in S : x <= y
SetMax(S) == CHOOSE x \in S : \A y \in S : y <= x

\* str.strip(): leading and trailing whitespace removed
Strip(s) ==
    LET keep == {i \in 1..Len(s) : s[i] \notin Whitespace}
    IN  IF keep = {} THEN <<>> ELSE SubSeq(s, SetMin(keep), SetMax(keep))

\* sub in s
Contains(s, sub) ==
    \E i \in 1..(Len(s) - Len(sub) + 1) : SubSeq(s, i, i + Len(sub) - 1) = sub

\* the number of positions at which sub occurs in s
Occurrences(s, sub) ==
    Cardinality({i \in 1..(Len(s) - Len(sub) + 1) : SubSeq(s, i, i + Len(sub) - 1) = sub})

LowerChar(c) ==
    CASE c = "H" -> "h"
      [] c = "T" -> "t"
      [] c = "M" -> "m"
      [] c = "L" -> "l"
      [] c = "X" -> "x"
      [] c = "E" -> "e"
      [] OTHER -> c

\* str.lower()
Lower(s) == [i \in 1..Len(s) |-> LowerChar(s[i])]

\* bool(error) of a str | None holding a message
Truthy(o) == IsSome(o) /\ TheValue(o) # ""

SchemeSep == <<":", "/", "/">>
Html == <<"h", "t", "m", "l">>
\* the markdown code fence, three backquotes, as one token
CodeFence == <<"[fence]">>

-----------------------------------------------------------------------------
(* PageResult: the pydantic models of app.py and models.py *)

\* app.py PageResult(**kw): url and status are required (Field(...)), url has
\* min_length 1 and the validator rejects a blank url and strips the rest,
\* status is within 0..999, markdown defaults to "" and error to None.
AppPageResult(kw) ==
    IF ~({"url", "status"} \subseteq DOMAIN kw)
    THEN Raise("ValidationError", "Field required")
    ELSE IF Len(kw.url) < 1
    THEN Raise("ValidationError", "String should have at least 1 character")
    ELSE IF kw.status < 0 \/ kw.status > 999
    THEN Raise("ValidationError", "status out of range")
    ELSE IF Strip(kw.url) = <<>>
    THEN Raise("ValidationError", "URL cannot be empty")
    ELSE Return([url      |-> Strip(kw.url),
                 status   |-> kw.status,
                 markdown |-> Get(kw, "markdown", <<>>),
                 error    |-> Get(kw, "error", None)])

\* models.py PageResult(**kw): the same model with a widgets list (default [])
\* added; keyword arguments that are no field of the model are ignored.
ModelsPageResult(kw) ==
    IF ~({"url", "status"} \subseteq DOMAIN kw)
    THEN Raise("ValidationError", "Field required")
    ELSE IF Len(kw.url) < 1
    THEN Raise("ValidationError", "String should have at least 1 character")
    ELSE IF kw.status < 0 \/ kw.status > 999
    THEN Raise("ValidationError", "status out of range")
    ELSE IF Strip(kw.url) = <<>>
    THEN Raise("ValidationError", "URL cannot be empty")
    ELSE Return([url      |-> Strip(kw.url),
                 status   |-> kw.status,
                 markdown |-> Get(kw, "markdown", <<>>),
                 widgets  |-> Get(kw, "widgets", <<>>),
                 error    |-> Get(kw, "error", None)])

-----------------------------------------------------------------------------
(* The network.  A request either raises (connection error, timeout,       *)
(* transport failure) or yields a response.                                 *)

NetErrors == {"Connection timed out", "Could not resolve host"}

NetRaise(m) == [kind |-> "raise", exc |-> "RequestsError", msg |-> m]

Response(url, status_code, content_type, text, title, meta, og) ==
    [kind |-> "response", url |-> url, status_code |-> status_code,
     ok |-> (status_code >= 200 /\ status_code < 400),
     content_type |-> content_type, text |-> text,
     title |-> title, meta |-> meta, og |-> og]

\* markdownify(html): an external conversion, kept opaque; what matters here is
\* that its output is neither the body itself nor the fenced body.
html_to_md(text) == <<"[md:">> \o text \o <<"]">>

-----------------------------------------------------------------------------
(* app.py fetch_markdown *)

\* lines 267-272: strip, then prepend the default scheme if there is no "://"
NormalizeUrlAlwaysPrepends(url, default_scheme) ==
    default_scheme \o SchemeSep \o Strip(url)

NormalizeUrl(url, default_scheme) ==
    LET normalized == Strip(url)
    IN  IF ~Contains(normalized, SchemeSep)
        THEN default_scheme \o SchemeSep \o normalized
        ELSE normalized

\* lines 281, 283: "html" in resp.headers.get("content-type", "").lower()
IsHtmlCaseSensitive(content_type) ==
    Contains(IF IsNone(content_type) THEN <<>> ELSE TheValue(content_type), Html)

IsHtml(content_type) ==
    Contains(Lower(IF IsNone(content_type) THEN <<>> ELSE TheValue(content_type)), Html)

\* lines 290-291: except Exception as e
OnExceptionReraises(normalized, msg) == Raise("Exception", msg)

OnException(normalized, msg) ==
    AppPageResult([url |-> normalized, status |-> 0, markdown |-> <<>>,
                   error |-> Some(msg)])

\* lines 281-288: the body of the try block once the response is there
OnResponse(resp) ==
    LET text == resp.text
        md   == IF IsHtml(resp.content_type)
                THEN html_to_md(text)
                ELSE CodeFence \o <<"\n">> \o text \o <<"\n">> \o CodeFence
    IN  AppPageResult([url |-> resp.url, status |-> resp.status_code, markdown |-> md])

\* fetch_markdown(url, settings) when the network answers the request with net:
\* the PageResult returned or the exception raised, and the requests issued.
FetchMarkdown(url, default_scheme, net) ==
    IF Strip(url) = <<>>
    THEN [outcome  |-> AppPageResult([url |-> url, status |-> 0, markdown |-> <<>>,
                                      error |-> Some("Empty URL")]),
          requests |-> <<>>]
    ELSE LET normalized == NormalizeUrl(url, default_scheme)
             built == IF net.kind = "response" THEN OnResponse(net) ELSE net
         IN  [outcome  |-> IF Raised(built)
                           THEN OnException(normalized, built.msg)
                           ELSE built,
              requests |-> <<normalized>>]

-----------------------------------------------------------------------------
(* sites/unknown.py *)

\* repr(s) of a str: single quotes unless s has a single and no double quote;
\* the backslash and the enclosing quote are escaped.  (Every character of the
\* alphabets used here is printable.)
RECURSIVE EscapeChars(_, _)
EscapeChars(s, quote) ==
    IF s = <<>> THEN <<>>
    ELSE (IF Head(s) = "\\" \/ Head(s) = quote THEN <<"\\", Head(s)>> ELSE <<Head(s)>>)
         \o EscapeChars(Tail(s), quote)

Repr(s) ==
    LET hasSingle == \E i \in 1..Len(s) : s[i] = "'"
        hasDouble == \E i \in 1..Len(s) : s[i] = "\""
        quote == IF hasSingle /\ ~hasDouble THEN "\"" ELSE "'"
    IN  <<quote>> \o EscapeChars(s, quote) \o <<quote>>

\* line 40: f"Failed to access {url=}\n{response}"
FailedToAccessPlainUrl(url, response) ==
    <<"Failed to access ", "url=">> \o url \o <<"\n", "<Response>">>

FailedToAccess(url, response) ==
    <<"Failed to access ", "url=">> \o Repr(url) \o <<"\n", "<Response>">>

\* extract_summary(tree), from the content of the two meta tags ("" if absent)
extract_summary(meta_content, og_content) ==
    IF meta_content # "" /\ og_content # ""
    THEN (IF meta_content # og_content
          THEN <<meta_content, "\n", og_content>>
          ELSE <<meta_content>>)
    ELSE IF meta_content # "" THEN <<meta_content>>
    ELSE IF og_content # "" THEN <<og_content>>
    ELSE <<>>

\* textual.widgets.Markdown(markdown=md)
Markdown(md) == [widget |-> "Markdown", markdown |-> md]

\* handle_unknown(url, app) when request_aget is answered with net
handle_unknown(url, net) ==
    IF net.kind = "raise" THEN net
    ELSE IF ~net.ok THEN Raise("BrowserError", FailedToAccess(url, net))
    ELSE LET html    == net.text
             title   == IF IsSome(net.title) THEN TheValue(net.title) ELSE net.url
             summary == extract_summary(net.meta, net.og)
             md      == html_to_md(html)
         IN  ModelsPageResult([widgets |-> <<Markdown(md)>>, url |-> net.url,
                               title |-> title, summary |-> summary])


-----------------------------------------------------------------------------
(* SpecFetch: one call of fetch_markdown or of handle_unknown on an input   *)
(* drawn from a bounded set, against every behaviour of the network.        *)

MaxUrlLen == 4
MaxUnknownUrlLen == 2

Strings(chars, n) == UNION {[1..k -> chars] : k \in 0..n}

UrlChars == {"a", ":", "/", " "}
QuoteChars == {"a", "'", "\"", "\\"}

FetchInputs == Strings(UrlChars, MaxUrlLen)
UnknownInputs == Strings(QuoteChars, MaxUnknownUrlLen) \ {<<>>}

\* BrowserSettings.default_scheme: "https" unless configured otherwise
HttpsScheme == <<"h", "t", "t", "p", "s">>
DefaultSchemes == {HttpsScheme, <<"h", "t", "t", "p">>}

FinalUrls == {<<"a", ":", "/", "/", "a">>, <<"a", ":", "/", "/", "a", "/", "a">>}
StatusCodes == {200, 404}
Bodies == {<<>>, <<"x">>}
ContentTypes ==
    {None,
     Some(<<"t", "e", "x", "t", "/", "h", "t", "m", "l">>),
     Some(<<"T", "E", "X", "T", "/", "H", "T", "M", "L">>),
     Some(<<"t", "e", "x", "t", "/", "p", "l", "a", "i", "n">>)}

NetRaises == {NetRaise(m) : m \in NetErrors}

FetchNet ==
    NetRaises \cup
    {Response(u, st, ct, t, None, "", "") :
        u \in FinalUrls, st \in StatusCodes, ct \in ContentTypes, t \in Bodies}

UnknownNet ==
    NetRaises \cup
    {Response(u, st, None, t, ti, meta, og) :
        u \in FinalUrls, st \in StatusCodes, t \in Bodies,
        ti \in {None, Some(<<"T">>)}, meta \in {"", "d"}, og \in {"", "d", "e"}}

FetchIdle ==
    /\ fFunc = "none"
    /\ fInput = <<>>
    /\ fScheme = HttpsScheme
    /\ fNet = None
    /\ fRequests = <<>>
    /\ fResult = None

FetchInit ==
    /\ \/ fFunc = "fetch_markdown" /\ fInput \in FetchInputs /\ fScheme \in DefaultSchemes
       \/ fFunc = "handle_unknown" /\ fInput \in UnknownInputs /\ fScheme = HttpsScheme
    /\ fNet = None
    /\ fRequests = <<>>
    /\ fResult = None

CallFetchMarkdown ==
    /\ fFunc = "fetch_markdown"
    /\ IsNone(fResult)
    /\ \E net \in FetchNet :
          LET r == FetchMarkdown(fInput, fScheme, net)
          IN  /\ fResult' = Some(r.outcome)
              /\ fRequests' = r.requests
              /\ fNet' = IF r.requests = <<>> THEN None ELSE Some(net)
    /\ UNCHANGED <<fFunc, fInput, fScheme, appVars, regVars, redditVars, dbVars, diskVars>>

CallHandleUnknown ==
    /\ fFunc = "handle_unknown"
    /\ IsNone(fResult)
    /\ \E net \in UnknownNet :
          /\ fResult' = Some(handle_unknown(fInput, net))
          /\ fRequests' = <<fInput>>
          /\ fNet' = Some(net)
    /\ UNCHANGED <<fFunc, fInput, fScheme, appVars, regVars, redditVars, dbVars, diskVars>>

FetchNext == CallFetchMarkdown \/ CallHandleUnknown


-----------------------------------------------------------------------------
(* interactions/__init__.py: the registry.  A domain "old.reddit.com" is    *)
(* the sequence of its dot-separated labels, <<"old", "reddit", "com">>.    *)

\* interaction(domain)(handler): _INTERACTION_REGISTRY[domain] = handler
interactionFirstWins(reg, domain, handler) ==
    IF domain \in DOMAIN reg THEN reg
    ELSE [d \in DOMAIN reg \cup {domain} |-> IF d = domain THEN handler ELSE reg[d]]

interaction(reg, domain, handler) ==
    [d \in DOMAIN reg \cup {domain} |-> IF d = domain THEN handler ELSE reg[d]]

\* get_interaction(domain): _INTERACTION_REGISTRY.get(domain)
get_interaction(reg, domain) ==
    Return(IF domain \in DOMAIN reg THEN Some(reg[domain]) ELSE None)

\* get_all_interactions(): a copy of the registry
get_all_interactions(reg) == [d \in DOMAIN reg |-> reg[d]]

-----------------------------------------------------------------------------
(* sites/__init__.py: the site handlers.  A URL is represented here by the  *)
(* labels of its host.                                                      *)

HANDLERSUnknownFirst == <<"UnknownHandler", "RedditHandler">>

\* _HANDLERS
HANDLERS == <<"RedditHandler", "UnknownHandler">>

\* RedditHandler.can_handle: the host is reddit.com or one of its subdomains
RedditCanHandle(host) ==
    Len(host) >= 2 /\ SubSeq(host, Len(host) - 1, Len(host)) = <<"reddit", "com">>

\* UnknownHandler.can_handle
UnknownCanHandle(host) == TRUE

can_handle(handler, host) ==
    IF handler = "RedditHandler" THEN RedditCanHandle(host) ELSE UnknownCanHandle(host)

\* get_site_handler(url): the handler returned and the handlers whose
\* can_handle was called, in order
get_site_handler(host) ==
    LET able == {i \in 1..Len(HANDLERS) : can_handle(HANDLERS[i], host)}
    IN  IF able # {}
        THEN [handler |-> HANDLERS[SetMin(able)], consulted |-> SubSeq(HANDLERS, 1, SetMin(able))]
        ELSE [handler |-> HANDLERS[Len(HANDLERS)], consulted |-> HANDLERS]

-----------------------------------------------------------------------------
(* SpecRegistry: registrations, lookups and handler selections.             *)

MaxRegistrations == 3

RegisterDomains == {<<"reddit", "com">>, <<"old", "reddit", "com">>, <<"example", "com">>}
LookupDomains ==
    RegisterDomains \cup
    {<<"a", "b", "reddit", "com">>, <<"www", "example", "com">>, <<"localhost">>}
HandlerNames == {"handle_reddit", "handle_other"}

RegIdle ==
    /\ registry = << >>
    /\ regLog = << >>
    /\ lookup = [op |-> "none"]

RegInit == RegIdle

Register ==
    /\ Len(regLog) < MaxRegistrations
    /\ \E d \in RegisterDomains, h \in HandlerNames :
          /\ registry' = interaction(registry, d, h)
          /\ regLog' = Append(regLog, <<d, h>>)
          /\ lookup' = [op |-> "interaction", domain |-> d, handler |-> h]
    /\ UNCHANGED <<appVars, fetchVars, redditVars, dbVars, diskVars>>

Lookup ==
    /\ \E d \in LookupDomains :
          lookup' = [op |-> "get_interaction", domain |-> d,
                     outcome |-> get_interaction(registry, d)]
    /\ UNCHANGED <<registry, regLog, appVars, fetchVars, redditVars, dbVars, diskVars>>

SelectSiteHandler ==
    /\ \E host \in LookupDomains :
          LET r == get_site_handler(host)
          IN  lookup' = [op |-> "get_site_handler", host |-> host,
                         handler |-> r.handler, consulted |-> r.consulted]
    /\ UNCHANGED <<registry, regLog, appVars, fetchVars, redditVars, dbVars, diskVars>>

RegNext == Register \/ Lookup \/ SelectSiteHandler


-----------------------------------------------------------------------------
(* app.py: the history file (flat list of URLs, newest first).  The file   *)
(* is read and written without I/O errors.                                 *)

\* BrowserSettings.history_limit as configured for the runs checked here
\* (any value in 1..10000; the default is 1000)
HistoryLimit == 3

RECURSIVE RemoveFirst(_, _)
\* list.remove(x): the first occurrence of x removed
RemoveFirst(l, x) ==
    IF l = <<>> THEN <<>>
    ELSE IF Head(l) = x THEN Tail(l)
    ELSE <<Head(l)>> \o RemoveFirst(Tail(l), x)

InList(l, x) == \E i \in 1..Len(l) : l[i] = x

\* line 144: history[: settings.history_limit]
KeepMostRecentFromEnd(l, history_limit) ==
    SubSeq(l, IF Len(l) < history_limit THEN 1 ELSE Len(l) - history_limit + 1, Len(l))

KeepMostRecent(l, history_limit) ==
    SubSeq(l, 1, IF Len(l) < history_limit THEN Len(l) ELSE history_limit)

\* save_url_to_history(url, settings): the file's contents afterwards
save_url_to_historyNoRemove(hist, url, history_limit) ==
    KeepMostRecent(<<url>> \o hist, history_limit)

save_url_to_history(hist, url, history_limit) ==
    LET removed  == IF InList(hist, url) THEN RemoveFirst(hist, url) ELSE hist
        inserted == <<url>> \o removed
    IN  KeepMostRecent(inserted, history_limit)

-----------------------------------------------------------------------------
(* app.py: JuiceboxApp.  The Tabs bar is Textual's: a new Tab gets the next *)
(* id of the bar's counter; adding a tab to an empty bar activates it;      *)
(* removing the active tab activates its right neighbour, else its left     *)
(* one, else nothing, once the handler that asked for the removal is done;  *)
(* every change of the active tab posts TabActivated.  Titles, subtitles,   *)
(* notifications and the URL input widget are not part of the state.        *)

\* tabs ever created, and tabs open at the same time
MaxTabs == 3
MaxOpenTabs == 2

TabIds(ts) == {ts[i].id : i \in 1..Len(ts)}
IndexOf(ts, id) == CHOOSE i \in 1..Len(ts) : ts[i].id = id

\* f"# Error fetching page\n\n{page_result.error}\n"
ErrorContent(err) == <<"# Error fetching page\n\n", err, "\n">>

\* dict.get(key): None for a missing key
ContentOf(tc, id) == IF id \in DOMAIN tc THEN tc[id] ELSE None

\* tab_content[tab_id] = value
SetContentEverywhere(tc, id, value) == [t \in DOMAIN tc \cup {id} |-> value]

SetContent(tc, id, value) ==
    [t \in DOMAIN tc \cup {id} |-> IF t = id THEN value ELSE tc[t]]

\* del tab_content[tab_id]
DelContentClears(tc, id) == [t \in DOMAIN tc |-> IF t = id THEN None ELSE tc[t]]

DelContent(tc, id) == [t \in DOMAIN tc \ {id} |-> tc[t]]

\* _update_markdown_from_tab with active-tab id act (None: no active tab):
\* the new current_page and Markdown content
UpdateFromTab(act, tc, page, shown) ==
    IF IsNone(act) THEN [current_page |-> page, content |-> shown]
    ELSE LET page_result == ContentOf(tc, TheValue(act))
         IN  IF IsSome(page_result)
             THEN [current_page |-> page_result,
                   content |-> IF Truthy(TheValue(page_result).error)
                               THEN ErrorContent(TheValue(TheValue(page_result).error))
                               ELSE TheValue(page_result).markdown]
             ELSE [current_page |-> None, content |-> <<>>]

\* Tabs._next_active: the tab activated when the active tab at index i goes
NextActive(ts, i) ==
    LET rest == SubSeq(ts, 1, i - 1) \o SubSeq(ts, i + 1, Len(ts))
    IN  IF i <= Len(rest) THEN Some(rest[i].id)
        ELSE IF i - 1 >= 1 /\ i - 1 <= Len(rest) THEN Some(rest[i - 1].id)
        ELSE None

AppInputs == {<<>>, <<" ">>, <<"a", " ">>}

Redirected == <<"h", ":", "/", "/", "r">>

\* what the network may do with a GET of req
AppNet(req) ==
    {NetRaise("Connection timed out"),
     Response(req, 200, Some(<<"t", "e", "x", "t", "/", "h", "t", "m", "l">>), <<"x">>,
              None, "", ""),
     Response(Redirected, 404, None, <<>>, None, "", "")}

AppIdle ==
    /\ tabs = <<>>
    /\ active = None
    /\ tabCounter = 0
    /\ tab_content = << >>
    /\ current_page = None
    /\ current_tabs = 1
    /\ content = <<>>
    /\ history = <<>>
    /\ appState = "idle"
    /\ lastOp = [op |-> "none"]

\* compose and on_mount: one tab "Tab 1", active, with no content yet
AppInit ==
    /\ tabs = <<[id |-> 1, label |-> 1]>>
    /\ active = Some(1)
    /\ tabCounter = 1
    /\ tab_content = SetContent(<< >>, 1, None)
    /\ current_page = None
    /\ current_tabs = 1
    /\ content = <<>>
    /\ history = <<>>
    /\ appState = "running"
    /\ lastOp = [op |-> "on_mount"]

\* on_input_submitted(event)
on_input_submitted ==
    /\ appState = "running"
    /\ \E value \in AppInputs :
       LET url == Strip(value)
           req == NormalizeUrl(url, HttpsScheme)
       IN  \E net \in AppNet(req) :
           LET r == FetchMarkdown(url, HttpsScheme, net)
           IN  /\ lastOp' = [op |-> "on_input_submitted", value |-> value]
               /\ IF Raised(r.outcome)
                  THEN /\ appState' = "crashed"
                       /\ UNCHANGED <<tab_content, current_page, content, history>>
                  ELSE LET page_result == r.outcome.value
                       IN  /\ appState' = appState
                           /\ tab_content' = IF IsSome(active)
                                             THEN SetContent(tab_content, TheValue(active),
                                                             Some(page_result))
                                             ELSE tab_content
                           /\ current_page' = Some(page_result)
                           /\ IF Truthy(page_result.error)
                              THEN /\ content' = ErrorContent(TheValue(page_result.error))
                                   /\ history' = history
                              ELSE /\ content' = page_result.markdown
                                   /\ history' = save_url_to_history(history, page_result.url,
                                                                     HistoryLimit)
    /\ UNCHANGED <<tabs, active, tabCounter, current_tabs, fetchVars, regVars, redditVars, dbVars, diskVars>>

\* action_refresh
action_refresh ==
    /\ appState = "running"
    /\ IF IsSome(current_page)
       THEN LET url == TheValue(current_page).url
            IN  \E net \in AppNet(NormalizeUrl(url, HttpsScheme)) :
                LET r == FetchMarkdown(url, HttpsScheme, net)
                IN  /\ lastOp' = [op |-> "action_refresh"]
                    /\ IF Raised(r.outcome)
                       THEN /\ appState' = "crashed"
                            /\ UNCHANGED <<tab_content, current_page, content>>
                       ELSE /\ appState' = appState
                            /\ tab_content' = IF IsSome(active)
                                              THEN SetContent(tab_content, TheValue(active),
                                                              Some(r.outcome.value))
                                              ELSE tab_content
                            /\ current_page' = Some(r.outcome.value)
                            /\ content' = r.outcome.value.markdown
       ELSE /\ lastOp' = [op |-> "action_refresh"]
            /\ UNCHANGED <<tab_content, current_page, content, appState>>
    /\ UNCHANGED <<tabs, active, tabCounter, current_tabs, history, fetchVars, regVars, redditVars, dbVars, diskVars>>

\* action_new_tab
action_new_tab ==
    /\ appState = "running"
    /\ tabCounter < MaxTabs
    /\ Len(tabs) < MaxOpenTabs
    /\ LET id == tabCounter + 1
           from_empty == tabs = <<>>
           tc == SetContent(tab_content, id, None)
           act == IF from_empty THEN Some(id) ELSE active
           upd == IF from_empty THEN UpdateFromTab(act, tc, current_page, content)
                  ELSE [current_page |-> current_page, content |-> content]
       IN  /\ current_tabs' = current_tabs + 1
           /\ tabCounter' = id
           /\ tabs' = Append(tabs, [id |-> id, label |-> current_tabs + 1])
           /\ tab_content' = tc
           /\ active' = act
           /\ current_page' = upd.current_page
           /\ content' = upd.content
    /\ lastOp' = [op |-> "action_new_tab"]
    /\ UNCHANGED <<history, appState, fetchVars, regVars, redditVars, dbVars, diskVars>>

\* action_close_tab
action_close_tab ==
    /\ appState = "running"
    /\ IF IsSome(active)
       THEN LET tab_id == TheValue(active)
                i == IndexOf(tabs, tab_id)
                tc == IF tab_id \in DOMAIN tab_content THEN DelContent(tab_content, tab_id)
                      ELSE tab_content
                \* the handler's own _update_markdown_from_tab: the closed tab is
                \* still the active one
                own == UpdateFromTab(active, tc, current_page, content)
                next == NextActive(tabs, i)
                \* TabActivated for the tab activated in its place, if any
                upd == IF IsSome(next) THEN UpdateFromTab(next, tc, own.current_page, own.content)
                       ELSE own
            IN  /\ tab_content' = tc
                /\ tabs' = SubSeq(tabs, 1, i - 1) \o SubSeq(tabs, i + 1, Len(tabs))
                /\ current_tabs' = IF current_tabs > 1 THEN current_tabs - 1 ELSE current_tabs
                /\ active' = next
                /\ current_page' = upd.current_page
                /\ content' = upd.content
       ELSE UNCHANGED <<tab_content, tabs, current_tabs, active, current_page, content>>
    /\ lastOp' = [op |-> "action_close_tab"]
    /\ UNCHANGED <<tabCounter, history, appState, fetchVars, regVars, redditVars, dbVars, diskVars>>

\* action_next_tab (direction 1) and action_previous_tab (direction -1):
\* Tabs moves the active tab cyclically, then _update_markdown_from_tab
MoveTab(direction, name) ==
    /\ appState = "running"
    /\ LET act == IF IsNone(active) THEN None
                  ELSE Some(tabs[((IndexOf(tabs, TheValue(active)) - 1 + direction)
                                  % Len(tabs)) + 1].id)
           upd == UpdateFromTab(act, tab_content, current_page, content)
       IN  /\ active' = act
           /\ current_page' = upd.current_page
           /\ content' = upd.content
    /\ lastOp' = [op |-> name]
    /\ UNCHANGED <<tabs, tabCounter, tab_content, current_tabs, history, appState,
                   fetchVars, regVars, redditVars, dbVars, diskVars>>

action_next_tab == MoveTab(1, "action_next_tab")

action_previous_tab == MoveTab(-1, "action_previous_tab")

AppNext ==
    \/ on_input_submitted
    \/ action_refresh
    \/ action_new_tab
    \/ action_close_tab
    \/ action_next_tab
    \/ action_previous_tab

-----------------------------------------------------------------------------
(* interactions/reddit.py: get_reddit_path and _get_json_url                *)
(*                                                                         *)
(* A URL is a sequence of atoms.  An atom is one character ("/", ":", "?", *)
(* "#", ";", "[", " ", "\t") or a run of letters that is never split       *)
(* ("https", "old.reddit.com", "r", "comments", "a", ...).                 *)

Find(s, c, from) ==
    LET hits == {i \in from..Len(s) : s[i] = c}
    IN  IF hits = {} THEN 0 ELSE SetMin(hits)

RFind(s, c) ==
    LET hits == {i \in 1..Len(s) : s[i] = c}
    IN  IF hits = {} THEN 0 ELSE SetMax(hits)

FindAny(s, cs, from) ==
    LET hits == {i \in from..Len(s) : s[i] \in cs}
    IN  IF hits = {} THEN 0 ELSE SetMin(hits)

From(s, i) == SubSeq(s, i, Len(s))

RECURSIVE SplitOn(_, _)
\* str.split(c)
SplitOn(s, c) ==
    IF Find(s, c, 1) = 0 THEN <<s>>
    ELSE <<SubSeq(s, 1, Find(s, c, 1) - 1)>> \o SplitOn(From(s, Find(s, c, 1) + 1), c)

\* urllib.parse: leading spaces and control characters are stripped, then
\* tab and newline are removed wherever they are
LStrip(s) ==
    LET keep == {i \in 1..Len(s) : s[i] \notin Whitespace}
    IN  IF keep = {} THEN <<>> ELSE From(s, SetMin(keep))

RemoveUnsafe(s) == SelectSeq(s, LAMBDA c : c \notin {"\t", "\n"})

\* the atoms that are letters only, so that they can make up a scheme
SchemeAtoms == {"https", "r", "a", "b", "q", "comments"}

\* urllib.parse.uses_params, as far as the schemes of the model go
UsesParams == {<<>>, <<"https">>}

\* urllib.parse._splitparams(url)[0]
SplitParams(url) ==
    LET i == IF Find(url, "/", 1) # 0
             THEN Find(url, ";", RFind(url, "/"))
             ELSE Find(url, ";", 1)
    IN  IF i = 0 THEN url ELSE SubSeq(url, 1, i - 1)

\* urlsplit: the index of the ":" that ends the scheme, 0 if there is none
SchemeEnd(u) ==
    LET colon == Find(u, ":", 1)
    IN  IF colon > 1 /\ \A i \in 1..(colon - 1) : u[i] \in SchemeAtoms THEN colon ELSE 0

SchemeOf(u) == IF SchemeEnd(u) = 0 THEN <<>> ELSE SubSeq(u, 1, SchemeEnd(u) - 1)

AfterScheme(u) == IF SchemeEnd(u) = 0 THEN u ELSE From(u, SchemeEnd(u) + 1)

\* urlsplit: the netloc is what follows "//" up to the first "/", "?" or "#"
HasNetloc(u) == Len(u) >= 2 /\ SubSeq(u, 1, 2) = <<"/", "/">>

NetlocOf(u) ==
    IF ~HasNetloc(u) THEN <<>>
    ELSE IF FindAny(u, {"/", "?", "#"}, 3) = 0 THEN From(u, 3)
    ELSE SubSeq(u, 3, FindAny(u, {"/", "?", "#"}, 3) - 1)

AfterNetloc(u) ==
    IF ~HasNetloc(u) THEN u
    ELSE IF FindAny(u, {"/", "?", "#"}, 3) = 0 THEN <<>>
    ELSE From(u, FindAny(u, {"/", "?", "#"}, 3))

\* url.split(c, 1)[0]
CutAt(u, c) == IF Find(u, c, 1) = 0 THEN u ELSE SubSeq(u, 1, Find(u, c, 1) - 1)

\* urlsplit cuts the fragment, then the query; urlparse then cuts the params
PathOf(scheme, u) ==
    IF scheme \in UsesParams /\ Find(CutAt(CutAt(u, "#"), "?"), ";", 1) # 0
    THEN SplitParams(CutAt(CutAt(u, "#"), "?"))
    ELSE CutAt(CutAt(u, "#"), "?")

UrlParseRest(scheme, u) ==
    IF (Find(NetlocOf(u), "[", 1) # 0) # (Find(NetlocOf(u), "]", 1) # 0)
    THEN Raise("ValueError", "Invalid IPv6 URL")
    ELSE Return([scheme |-> scheme, netloc |-> NetlocOf(u),
                 path |-> PathOf(scheme, AfterNetloc(u))])

UrlParseClean(u) == UrlParseRest(SchemeOf(u), AfterScheme(u))

\* urllib.parse.urlparse(url): Return([scheme, netloc, path]) or
\* Raise("ValueError", ..) for a netloc with an unmatched bracket
urlparse(url) == UrlParseClean(RemoveUnsafe(LStrip(url)))

RedditPathComponents(subreddit, post_id, type) ==
    [subreddit |-> subreddit, post_id |-> post_id, type |-> type]

\* lines 366-413, once the URL is parsed
ClassifyParts(parts) ==
    IF parts = <<>>
    THEN RedditPathComponents(None, None, "home")
    ELSE IF parts[1] = <<"r">>
    THEN IF Len(parts) < 2
         THEN RedditPathComponents(None, None, "unknown")
         ELSE IF Len(parts) >= 3 /\ parts[3] = <<"comments">>
         THEN LET post_id == IF Len(parts) >= 4 /\ parts[4] # <<>>
                             THEN Some(parts[4]) ELSE None
              IN  IF IsSome(post_id) /\ TheValue(post_id) # <<>>
                  THEN RedditPathComponents(Some(parts[2]), post_id, "post")
                  ELSE RedditPathComponents(Some(parts[2]), None, "subreddit")
         ELSE RedditPathComponents(Some(parts[2]), None, "subreddit")
    ELSE IF parts[1] = <<"comments">>
    THEN LET post_id == IF Len(parts) >= 2 THEN Some(parts[2]) ELSE None
         IN  RedditPathComponents(None, post_id,
                 IF IsSome(post_id) /\ TheValue(post_id) # <<>> THEN "post" ELSE "unknown")
    ELSE RedditPathComponents(None, None, "unknown")

\* lines 363-364: path = parsed.path or "/"; the non-empty parts of it
PartsOf(path) ==
    SelectSeq(SplitOn(IF path = <<>> THEN <<"/">> ELSE path, "/"), LAMBDA p : p # <<>>)

ClassifyParsed(parsed) ==
    IF Raised(parsed) THEN parsed ELSE Return(ClassifyParts(PartsOf(parsed.value.path)))

\* get_reddit_path(url)
get_reddit_path(url) == ClassifyParsed(urlparse(url))

RedditBase == <<"https", ":", "/", "/", "old.reddit.com">>

\* bool(x) of a str | None
TruthyStr(o) == IsSome(o) /\ TheValue(o) # <<>>

_get_json_urlSubredditOnly(comps) ==
    IF comps.type = "home"
    THEN Some(RedditBase \o <<"/", ".json">>)
    ELSE IF TruthyStr(comps.subreddit)
    THEN Some(RedditBase \o <<"/", "r", "/">> \o TheValue(comps.subreddit) \o <<".json">>)
    ELSE None

_get_json_url(comps) ==
    IF comps.type = "home"
    THEN Some(RedditBase \o <<"/", ".json">>)
    ELSE IF comps.type = "subreddit" /\ TruthyStr(comps.subreddit)
    THEN Some(RedditBase \o <<"/", "r", "/">> \o TheValue(comps.subreddit) \o <<".json">>)
    ELSE IF comps.type = "post" /\ TruthyStr(comps.post_id)
    THEN IF TruthyStr(comps.subreddit)
         THEN Some(RedditBase \o <<"/", "r", "/">> \o TheValue(comps.subreddit)
                   \o <<"/", "comments", "/">> \o TheValue(comps.post_id) \o <<".json">>)
         ELSE Some(RedditBase \o <<"/", "comments", "/">> \o TheValue(comps.post_id)
                   \o <<".json">>)
    ELSE None

-----------------------------------------------------------------------------
(* SpecRedditPath: the two pure functions applied to bounded inputs *)

MaxSegments == 4

\* what can stand between two slashes of the path
SegmentChoices == {<<>>, <<"r">>, <<"comments">>, <<"a">>, <<"a", ";", "b">>}

\* everything before the path
UrlPrefixes ==
    {<<>>,
     <<"https", ":", "/", "/", "old.reddit.com">>,
     <<"https", ":", "/", "/", "www.reddit.com">>,
     <<"https", ":", "/", "/", "[">>}

\* everything after the path
UrlSuffixes == {<<>>, <<"?", "q", "/", "r">>, <<"#", "r">>}

RECURSIVE JoinSlash(_)
JoinSlash(segs) ==
    IF segs = <<>> THEN <<>> ELSE <<"/">> \o Head(segs) \o JoinSlash(Tail(segs))

SegmentLists == UNION {[1..n -> SegmentChoices] : n \in 0..MaxSegments}

RedditUrls ==
    {pre \o JoinSlash(segs) \o slash \o suf :
        pre \in UrlPrefixes, segs \in SegmentLists,
        slash \in {<<>>, <<"/">>}, suf \in UrlSuffixes}

\* every RedditPathComponents value, whether get_reddit_path returns it or not
ComponentValues == {None, Some(<<>>), Some(<<"a">>)}
AllComps ==
    {RedditPathComponents(s, p, t) :
        s \in ComponentValues, p \in ComponentValues,
        t \in {"home", "subreddit", "post", "unknown"}}

RedditIdle ==
    /\ rUrl = None
    /\ rComps = None
    /\ rJson = None

RedditPathInit ==
    /\ \/ rUrl \in {Some(u) : u \in RedditUrls} /\ rComps = None
       \/ rUrl = None /\ rComps \in {Some(Return(c)) : c \in AllComps}
    /\ rJson = None

CallGetRedditPath ==
    /\ IsSome(rUrl)
    /\ IsNone(rComps)
    /\ rComps' = Some(get_reddit_path(TheValue(rUrl)))
    /\ UNCHANGED <<rUrl, rJson, appVars, fetchVars, regVars, dbVars, diskVars>>

CallGetJsonUrl ==
    /\ IsSome(rComps)
    /\ Returned(TheValue(rComps))
    /\ IsNone(rJson)
    /\ rJson' = Some(_get_json_url(TheValue(rComps).value))
    /\ UNCHANGED <<rUrl, rComps, appVars, fetchVars, regVars, dbVars, diskVars>>

RedditPathNext == CallGetRedditPath \/ CallGetJsonUrl

-----------------------------------------------------------------------------
(* interactions/reddit.py: handle_reddit and _render_reddit_content         *)

\* the exception classes that matter and their base classes
Bases(exc) ==
    CASE exc = "RequestsError"   -> {"RequestsError", "OSError", "Exception"}
      [] exc = "JSONDecodeError" -> {"JSONDecodeError", "ValueError", "Exception"}
      [] exc = "ValidationError" -> {"ValidationError", "ValueError", "Exception"}
      [] OTHER                   -> {exc, "Exception"}

\* except (classes) matches the raised outcome r
Catches(classes, r) == Raised(r) /\ Bases(r.exc) \cap classes # {}

\* JSON values.  An object is known by its shape with respect to the
\* RedditResponse schema:
\*   "listing1"   a Listing whose children hold one valid post
\*   "listing0"   a Listing whose children array is empty
\*   "nochildren" a Listing without its children array
\*   "badpost"    a Listing whose one child lacks required post fields
\*   "empty"      {}
JsonNull == [t |-> "null"]
JsonNumber == [t |-> "number"]
JsonObject(shape) == [t |-> "object", shape |-> shape]
JsonArray(items) == [t |-> "array", items |-> items]

ObjectShapes == {"listing1", "listing0", "nochildren", "badpost", "empty"}

MaxItems == 2

JsonObjects == {JsonObject(s) : s \in ObjectShapes}
JsonArrays == {JsonArray(items) : items \in UNION {[1..n -> JsonObjects] : n \in 0..MaxItems}}
JsonValues == {JsonNull, JsonNumber} \cup JsonObjects \cup JsonArrays

RECURSIVE DumpItems(_)
DumpItems(items) ==
    IF items = <<>> THEN <<>>
    ELSE <<"{", Head(items).shape, "}">>
         \o (IF Tail(items) = <<>> THEN <<>> ELSE <<",">>)
         \o DumpItems(Tail(items))

\* the text of a JSON value, as atoms
json_dumps(v) ==
    CASE v.t = "null"   -> <<"null">>
      [] v.t = "number" -> <<"5">>
      [] v.t = "object" -> <<"{", v.shape, "}">>
      [] v.t = "array"  -> <<"[">> \o DumpItems(v.items) \o <<"]">>

\* json.loads(text): the value whose text it is, or JSONDecodeError
json_loads(text) ==
    IF \E v \in JsonValues : json_dumps(v) = text
    THEN Return(CHOOSE v \in JsonValues : json_dumps(v) = text)
    ELSE Raise("JSONDecodeError", "Expecting value")

\* RedditResponse.model_validate(data), data a JSON object: the number of
\* posts of the listing, or ValidationError
model_validate(data) ==
    CASE data.shape = "listing1" -> Return([children |-> 1])
      [] data.shape = "listing0" -> Return([children |-> 0])
      [] OTHER -> Raise("ValidationError", "validation errors for RedditResponse")

\* create_widgets_for_post(post): title, footer and separator (the optional
\* thumbnail is best effort and left out)
create_widgets_for_post == <<"Markdown:title", "Markdown:footer", "Static">>

\* create_widgets_for_listing(listing, subreddit)
create_widgets_for_listing(listing, subreddit) ==
    LET header_sub == IF ~TruthyStr(subreddit) /\ listing.children > 0
                      THEN Some(<<"a">>) ELSE subreddit
    IN  (IF TruthyStr(header_sub) THEN <<"Markdown:header">> ELSE <<>>)
        \o (IF listing.children > 0 THEN create_widgets_for_post ELSE <<>>)

\* _render_reddit_content(comps, data): Return([md, widgets]) or ValueError
_render_reddit_content(comps, data) ==
    IF comps.type \in {"home", "subreddit"} /\ data.t = "object"
    THEN LET listing == model_validate(data)
         IN  IF Raised(listing)
             THEN Raise("ValueError", "Failed to parse subreddit/home listing")
             ELSE Return([md |-> None,
                          widgets |-> Some(create_widgets_for_listing(listing.value,
                                                                      comps.subreddit))])
    ELSE IF comps.type = "post" /\ data.t = "array" /\ data.items # <<>>
    THEN LET listing0 == model_validate(data.items[1])
         IN  IF Raised(listing0)
             THEN Raise("ValueError", "Failed to parse post listing")
             ELSE IF listing0.value.children > 0
             THEN Return([md |-> None, widgets |-> Some(create_widgets_for_post)])
             ELSE Return([md |-> None, widgets |-> None])
    ELSE Return([md |-> None, widgets |-> None])

CouldNotDetermine == "Could not determine Reddit JSON endpoint from URL."
ReturnedStatus == "Reddit API returned status"
InvalidJson == "Reddit API returned invalid JSON"
FailedToParse == "Failed to parse Reddit response"

\* lines 475-476: response.status_code != http_ok
IsHttpOkAny2xx(status_code) == status_code >= 200 /\ status_code <= 299

IsHttpOk(status_code) == status_code = 200

\* lines 489-491: json.loads(response.text or "null"), then the rendering
OnLoaded(comps, data) ==
    IF Raised(data) THEN data ELSE _render_reddit_content(comps, data.value)

RenderBody(comps, text) ==
    OnLoaded(comps, json_loads(IF text = <<>> THEN <<"null">> ELSE text))

\* lines 492-533: what is returned for the outcome of the rendering
OnRendered(url, response, rendered) ==
    IF Catches({"JSONDecodeError"}, rendered)
    THEN AppPageResult([url |-> url, status |-> response.status_code,
                        markdown |-> <<>>, error |-> Some(InvalidJson)])
    ELSE IF Catches({"ValueError"}, rendered)
    THEN AppPageResult([url |-> url, status |-> response.status_code,
                        markdown |-> <<>>, error |-> Some(FailedToParse)])
    ELSE IF IsSome(rendered.value.widgets) /\ TheValue(rendered.value.widgets) # <<>>
    THEN AppPageResult([url |-> url, status |-> response.status_code,
                        markdown |-> <<>>,
                        widgets |-> TheValue(rendered.value.widgets)])
    ELSE IF IsSome(rendered.value.md)
    THEN AppPageResult([url |-> url, status |-> response.status_code,
                        markdown |-> TheValue(rendered.value.md)])
    ELSE AppPageResult([url |-> url, status |-> response.status_code,
                        markdown |-> <<"[fence]", "json", "\n">> \o response.text
                                     \o <<"\n", "[fence]">>])

\* lines 475-533: the body of the outer try once the response is there
OnRedditResponse(url, comps, response) ==
    IF ~IsHttpOk(response.status_code)
    THEN AppPageResult([url |-> url, status |-> response.status_code,
                        markdown |-> <<>>, error |-> Some(ReturnedStatus)])
    ELSE OnRendered(url, response, RenderBody(comps, response.text))

\* lines 534-536: except (OSError, ValueError, KeyError) as e
OnRedditException(url, r) ==
    IF Catches({"OSError", "ValueError", "KeyError"}, r)
    THEN AppPageResult([url |-> url, status |-> 0, markdown |-> <<>>, error |-> Some(r.msg)])
    ELSE r

\* lines 458-465: no JSON endpoint for the URL
OnNoEndpointErrorUnset(url) ==
    AppPageResult([url |-> url, status |-> 0, markdown |-> <<>>])

OnNoEndpoint(url) ==
    AppPageResult([url |-> url, status |-> 0, markdown |-> <<>>,
                   error |-> Some(CouldNotDetermine)])

\* lines 467-536: the try statement, tried being what its body came to
TryOutcome(url, tried) ==
    IF Raised(tried) THEN OnRedditException(url, tried) ELSE tried

\* lines 458-536, with the endpoint computed
HandleEndpoint(url, comps, json_url, net) ==
    IF IsNone(json_url)
    THEN [outcome |-> OnNoEndpoint(url), requests |-> <<>>]
    ELSE [outcome  |-> TryOutcome(url, IF net.kind = "response"
                                       THEN OnRedditResponse(url, comps, net)
                                       ELSE net),
          requests |-> <<TheValue(json_url)>>]

\* lines 455-536, with the URL classified
HandleClassified(url, classified, net) ==
    IF Raised(classified)
    THEN [outcome |-> classified, requests |-> <<>>]
    ELSE HandleEndpoint(url, classified.value, _get_json_url(classified.value), net)

\* handle_reddit(url, settings) when the network answers the request with
\* net: the PageResult returned or the exception raised and the requests issued
handle_reddit(url, net) == HandleClassified(url, get_reddit_path(url), net)

-----------------------------------------------------------------------------
(* sites/reddit.py: handle_reddit built on the scraper                      *)

\* scrape_post(post_url=url) of the webscrapers package: the response it got,
\* the permalink it found (or None) and the top-level comments
ScrapeData(status, permalink, comments) ==
    [status |-> status, ok |-> (status >= 200 /\ status < 400),
     permalink |-> permalink, comments |-> comments]

\* sites/reddit.py handle_reddit(url) when scrape_post returns data
sites_handle_reddit(url, data) ==
    LET permalink == IF TruthyStr(data.permalink) THEN TheValue(data.permalink) ELSE <<>>
    IN  IF ~data.ok
        THEN ModelsPageResult([url |-> permalink, status |-> data.status,
                               widgets |-> <<"Label:error", "Pretty:json">>,
                               error |-> Some(<<"Failed to access ", "url=">> \o Repr(url))])
        ELSE ModelsPageResult([url |-> permalink, status |-> data.status,
                               widgets |-> [i \in 1..data.comments |-> "RedditComment"]])

-----------------------------------------------------------------------------
(* SpecReddit: one call of a Reddit handler *)

HostOld == <<"https", ":", "/", "/", "old.reddit.com">>

HandlerUrls ==
    {<<>>, <<" ">>,
     HostOld,
     HostOld \o <<"/">>,
     HostOld \o <<"/", "r", "/", "a">>,
     HostOld \o <<"/", "r", "/", "a", "/", "comments", "/", "b">>,
     HostOld \o <<"/", "comments", "/", "b">>,
     HostOld \o <<"/", "r", "/", "a", "/", "comments">>,
     HostOld \o <<"/", "comments">>,
     HostOld \o <<"/", "a", "/", "b">>,
     HostOld \o <<"/", "r">>,
     <<"https", ":", "/", "/", "[", "/", "r", "/", "a">>}

RedditStatusCodes == {200, 204, 404}

RedditBodies ==
    {<<>>, <<"<html>">>, <<"{">>} \cup {json_dumps(v) : v \in JsonValues}

RedditNet ==
    NetRaises \cup
    {Response(HostOld, st, None, t, None, "", "") : st \in RedditStatusCodes, t \in RedditBodies}

MaxComments == 1

ScrapeOutcomes ==
    {ScrapeData(st, p, n) :
        st \in RedditStatusCodes, p \in {None, Some(<<"/", "r", "/", "a">>)},
        n \in 0..MaxComments}

RedditInit ==
    /\ fFunc \in {"handle_reddit", "sites.handle_reddit"}
    /\ fInput \in HandlerUrls
    /\ fScheme = HttpsScheme
    /\ fNet = None
    /\ fRequests = <<>>
    /\ fResult = None

CallHandleReddit ==
    /\ fFunc = "handle_reddit"
    /\ IsNone(fResult)
    /\ \E net \in RedditNet :
          LET r == handle_reddit(fInput, net)
          IN  /\ fResult' = Some(r.outcome)
              /\ fRequests' = r.requests
              /\ fNet' = IF r.requests = <<>> THEN None ELSE Some(net)
    /\ UNCHANGED <<fFunc, fInput, fScheme, appVars, regVars, redditVars, dbVars, diskVars>>

CallSitesHandleReddit ==
    /\ fFunc = "sites.handle_reddit"
    /\ IsNone(fResult)
    /\ \E data \in ScrapeOutcomes :
          /\ fResult' = Some(sites_handle_reddit(fInput, data))
          /\ fRequests' = <<fInput>>
          /\ fNet' = Some(data)
    /\ UNCHANGED <<fFunc, fInput, fScheme, appVars, regVars, redditVars, dbVars, diskVars>>

RedditNext == CallHandleReddit \/ CallSitesHandleReddit

-----------------------------------------------------------------------------
(* history.py: the SQLModel history store *)

\* Time is counted in ticks, TicksPerDay to the day.  The clock is the wall
\* clock read by datetime.now(UTC); it is taken never to step backwards.
TicksPerDay == 2
MaxClock == 4
MaxVisits == 3

\* settings.history_days (gt=0)
HistoryDays == 1

\* URLData: url and title (default ""); summary, screenshot and favicon take
\* no part in any operation and are left out of the rows
HistoryUrls == {<<"h", "T">>, <<"m">>}
HistoryTitles == {<<>>, <<"M", "e">>}
URLData == [url : HistoryUrls, title : HistoryTitles]

\* url_data without a title: URLData(url=url)
Untitled == {url_data \in URLData : url_data.title = <<>>}

\* the queries and limits given to get_matching_history, and the clock and
\* visit bounds of the runs that search
MaxSearchClock == 1
MaxSearchVisits == 2
HistoryQueries == {<<>>, <<"M">>, <<"x">>, <<"H", "t">>}
MaxLimit == 2

\* datetime.isoformat / datetime.fromisoformat
isoformat(t) == [iso |-> t]
fromisoformat(x) == x.iso

\* HistoryEntry.date_visited: the getter decodes date_visited_json, the setter
\* encodes the list it is given
date_visited(entry) ==
    [i \in 1..Len(entry.date_visited_json) |-> fromisoformat(entry.date_visited_json[i])]

set_date_visited(entry, value) ==
    [entry EXCEPT !.date_visited_json = [i \in 1..Len(value) |-> isoformat(value[i])]]

\* the primary key SQLite gives a new row: one more than the largest in use
NextRowId(rows) == IF rows = {} THEN 1 ELSE SetMax({r.id : r \in rows}) + 1

\* session.exec(select(HistoryEntry).where(HistoryEntry.url == url)).first()
FirstByUrl(rows, url) ==
    LET found == {r \in rows : r.url = url}
    IN  IF found = {} THEN None
        ELSE Some(CHOOSE r \in found : \A q \in found : r.id <= q.id)

\* lines 121-122: visits.append(now)
AppendVisitAtFront(visits, now) == <<now>> \o visits

AppendVisit(visits, now) == Append(visits, now)

\* save_or_update_history_entry(url_data, now, session): the table afterwards
save_or_update_history_entryAlwaysInserts(rows, url_data, now) ==
    rows \cup {set_date_visited([id |-> NextRowId(rows), url |-> url_data.url,
                                 title |-> url_data.title,
                                 created_at |-> now, updated_at |-> now,
                                 date_visited_json |-> <<>>], <<now>>)}

save_or_update_history_entry(rows, url_data, now) ==
    LET existing_entry == FirstByUrl(rows, url_data.url)
    IN  IF IsSome(existing_entry)
        THEN LET old     == TheValue(existing_entry)
                 visits  == AppendVisit(date_visited(old), now)
                 updated == [set_date_visited(old, visits) EXCEPT !.updated_at = now]
             IN  (rows \ {old}) \cup {updated}
        ELSE rows \cup {set_date_visited([id |-> NextRowId(rows), url |-> url_data.url,
                                          title |-> url_data.title,
                                          created_at |-> now, updated_at |-> now,
                                          date_visited_json |-> <<>>], <<now>>)}

\* remove_expired_history(session, settings), the clock reading now: the
\* table afterwards
remove_expired_historyByCreation(rows, now, history_days) ==
    LET cutoff_date == now - history_days * TicksPerDay
    IN  {r \in rows : ~(r.created_at < cutoff_date)}

remove_expired_history(rows, now, history_days) ==
    LET cutoff_date == now - history_days * TicksPerDay
    IN  {r \in rows : ~(r.updated_at < cutoff_date)}

HistoryIdle ==
    /\ db = {}
    /\ clock = 0
    /\ histOp = [op |-> "none"]

HistoryInit == HistoryIdle

\* history.py save_url_to_history(url_data, engine, settings): record, then
\* prune; the clock may move on between the two readings of it
SaveUrlToHistory(inputs, max_clock, max_visits) ==
    \E url_data \in inputs, elapsed \in {0, 1} :
        LET url      == url_data.url
            now      == clock
            later    == clock + elapsed
            existing == FirstByUrl(db, url)
            recorded == save_or_update_history_entry(db, url_data, now)
            pruned   == remove_expired_history(recorded, later, HistoryDays)
        IN  /\ later <= max_clock
            /\ IsSome(existing) => Len(TheValue(existing).date_visited_json) < max_visits
            /\ db' = pruned
            /\ clock' = later
            /\ histOp' = [op |-> "save_url_to_history", url |-> url, now |-> now,
                          cutoff |-> later - HistoryDays * TicksPerDay,
                          existed |-> IsSome(existing),
                          removed |-> {r.url : r \in recorded \ pruned}]
            /\ UNCHANGED <<appVars, fetchVars, regVars, redditVars, diskVars>>

history_save_url_to_history == SaveUrlToHistory(Untitled, MaxClock, MaxVisits)

history_save_titled_url_to_history == SaveUrlToHistory(URLData, MaxSearchClock, MaxSearchVisits)

\* select(HistoryEntry) has no ORDER BY: the rows come in an order the
\* database chooses
ScanOrders(rows) ==
    {s \in [1..Cardinality(rows) -> rows] : \A i, j \in DOMAIN s : s[i] = s[j] => i = j}

\* lines 178-188: the entries kept by the filter, in the order they came
MatchesUrlOnly(entry, query) ==
    \/ ~(query # <<>>)
    \/ Contains(Lower(entry.url), Lower(query))

Matches(entry, query) ==
    \/ ~(query # <<>>)
    \/ Contains(Lower(entry.url), Lower(query))
    \/ Contains(Lower(entry.title), Lower(query))

Matching(all_entries, query) == SelectSeq(all_entries, LAMBDA entry : Matches(entry, query))

\* sorted(matching, key=lambda e: e.updated_at, reverse=True): a stable sort,
\* entries with equal keys keep the order they had
RECURSIVE SortedByUpdatedDesc(_)
SortedByUpdatedDesc(entries) ==
    IF entries = <<>> THEN <<>>
    ELSE LET best  == SetMax({entries[i].updated_at : i \in DOMAIN entries})
             first == SetMin({i \in DOMAIN entries : entries[i].updated_at = best})
         IN  <<entries[first]>> \o
             SortedByUpdatedDesc(SubSeq(entries, 1, first - 1) \o
                                 SubSeq(entries, first + 1, Len(entries)))

\* sorted_entries[:limit] for limit >= 0
Truncate(entries, limit) ==
    SubSeq(entries, 1, IF limit < Len(entries) THEN limit ELSE Len(entries))

\* get_matching_history(query, engine, limit), all_entries being the rows as
\* the select returned them
get_matching_history(all_entries, query, limit) ==
    Truncate(SortedByUpdatedDesc(Matching(all_entries, query)), limit)

history_get_matching_history ==
    \E query \in HistoryQueries, limit \in 0..MaxLimit, all_entries \in ScanOrders(db) :
        /\ histOp' = [op |-> "get_matching_history", query |-> query, limit |-> limit,
                      result |-> get_matching_history(all_entries, query, limit)]
        /\ UNCHANGED <<db, clock, appVars, fetchVars, regVars, redditVars, diskVars>>

\* time passes between two calls
TickTo(max_clock) ==
    /\ clock < max_clock
    /\ clock' = clock + 1
    /\ UNCHANGED <<db, histOp, appVars, fetchVars, regVars, redditVars, diskVars>>

Tick == TickTo(MaxClock)

SearchTick == TickTo(MaxSearchClock)

HistoryNext == history_save_url_to_history \/ Tick

HistorySearchNext ==
    history_save_titled_url_to_history \/ history_get_matching_history \/ SearchTick

-----------------------------------------------------------------------------
(* app.py: history.json on disk.  A text is a sequence of tokens: "[", "]"  *)
(* and one token per URL; the empty text is what a file holds right after   *)
(* it was opened for writing.                                               *)

FlatUrls == {"a", "b", "c", "d", "e"}
MaxSaves == 4

NoFile == [exists |-> FALSE, text |-> <<>>]

\* json.dump(history, f, indent=2)
json_dump(l) == <<"[">> \o l \o <<"]">>

\* json.load(f)
json_load(text) ==
    IF /\ Len(text) >= 2
       /\ text[1] = "["
       /\ text[Len(text)] = "]"
       /\ \A i \in 2..(Len(text) - 1) : text[i] \notin {"[", "]"}
    THEN Return(SubSeq(text, 2, Len(text) - 1))
    ELSE Raise("JSONDecodeError", "Expecting value")

\* load_history(): [] when the file does not exist or does not parse
load_history(file) ==
    IF ~file.exists THEN <<>>
    ELSE IF Raised(json_load(file.text)) THEN <<>>
    ELSE json_load(file.text).value

\* history_file.open("w"): the file is created or emptied
OpenForWriting(file) == [exists |-> TRUE, text |-> <<>>]

\* the text written from the start of the file when the handle is closed;
\* what the file held beyond its length stays
WriteAtStart(file, text) ==
    [exists |-> TRUE, text |-> text \o SubSeq(file.text, Len(text) + 1, Len(file.text))]

DiskIdle ==
    /\ histFile = NoFile
    /\ saveLog = <<>>
    /\ savers = << >>
    /\ cache = {}
    /\ fetched = {}
    /\ thumbOp = [op |-> "none"]

\* ---- SpecFlatHistory: calls of save_url_to_history one after the other ----

FlatHistoryInit == DiskIdle

\* save_url_to_history(url, settings) from its first line to its last
FileSaveUrl ==
    \E url \in FlatUrls :
        /\ Len(saveLog) < MaxSaves
        /\ histFile' = WriteAtStart(OpenForWriting(histFile),
                                    json_dump(save_url_to_history(load_history(histFile), url,
                                                                  HistoryLimit)))
        /\ saveLog' = Append(saveLog, url)
        /\ UNCHANGED <<savers, cache, fetched, thumbOp, appVars, fetchVars, regVars,
                       redditVars, dbVars>>

FlatHistoryNext == FileSaveUrl

\* ---- SpecHistoryRace: two processes, each calling save_url_to_history ----
\* ---- once, on the same file; nothing in the code orders their steps    ----

Procs == {1, 2}
RaceUrls == {"a", "b", "c"}
RaceHistories == {<<>>, <<"c">>, <<"c", "d">>}

IdleSaver == [pc |-> "idle", url |-> "", history |-> <<>>]

HistoryRaceInit ==
    /\ \E l \in RaceHistories :
          /\ histFile = (IF l = <<>> THEN NoFile ELSE WriteAtStart(NoFile, json_dump(l)))
          /\ saveLog = l
    /\ savers = [p \in Procs |-> IdleSaver]
    /\ cache = {}
    /\ fetched = {}
    /\ thumbOp = [op |-> "none"]

\* lines 134-144: load_history(), then remove, insert and slice in memory
SaverLoad(p) ==
    /\ savers[p].pc = "idle"
    /\ \E url \in RaceUrls :
          /\ savers' = [savers EXCEPT ![p] =
                           [pc |-> "loaded", url |-> url,
                            history |-> save_url_to_history(load_history(histFile), url,
                                                            HistoryLimit)]]
          /\ saveLog' = Append(saveLog, url)
    /\ UNCHANGED <<histFile, cache, fetched, thumbOp, appVars, fetchVars, regVars,
                   redditVars, dbVars>>

\* line 149: history_file.open("w")
SaverOpen(p) ==
    /\ savers[p].pc = "loaded"
    /\ histFile' = OpenForWriting(histFile)
    /\ savers' = [savers EXCEPT ![p].pc = "opened"]
    /\ UNCHANGED <<saveLog, cache, fetched, thumbOp, appVars, fetchVars, regVars,
                   redditVars, dbVars>>

\* line 150 and the end of the with block: the text is written and the file
\* closed
SaverDump(p) ==
    /\ savers[p].pc = "opened"
    /\ histFile' = WriteAtStart(histFile, json_dump(savers[p].history))
    /\ savers' = [savers EXCEPT ![p].pc = "done"]
    /\ UNCHANGED <<saveLog, cache, fetched, thumbOp, appVars, fetchVars, regVars,
                   redditVars, dbVars>>

HistoryRaceNext == \E p \in Procs : SaverLoad(p) \/ SaverOpen(p) \/ SaverDump(p)

-----------------------------------------------------------------------------
(* interactions/reddit.py: the thumbnail of a post and the image cache      *)

HttpPrefix == <<"h", "t", "t", "p">>
ThumbUrls == {HttpPrefix \o <<"a">>, HttpPrefix \o <<"s", "b">>, HttpPrefix \o <<"s", "c">>}

\* post.data.thumbnail: absent, empty, a sentinel, or a URL
PostThumbnails ==
    {None, Some(<<>>), Some(<<"s", "e", "l", "f">>), Some(<<"d", "e", "f", "a", "u", "l", "t">>),
     Some(<<"f", "t", "p", "a">>)} \cup {Some(u) : u \in ThumbUrls}

\* str.startswith
StartsWith(s, prefix) == Len(s) >= Len(prefix) /\ SubSeq(s, 1, Len(prefix)) = prefix

\* hashlib.sha256(url.encode("utf-8")).hexdigest(): the name of the cache
\* file; different URLs have different digests
sha256(url) == [sha256 |-> url]

\* what the network may do with the GET of a thumbnail
ThumbStatusCodes == {200, 404}
ThumbNet ==
    {NetRaise(m) : m \in NetErrors} \cup
    {[kind |-> "response", status_code |-> st, content |-> c] :
        st \in ThumbStatusCodes, c \in {<<>>, <<"x">>}}

\* the image arrived: status 200 and a non-empty body
Downloaded(net) == net.kind = "response" /\ net.status_code = 200 /\ net.content # <<>>

\* lines 293-307: the request and the write; an exception of the request
\* ends in the except clause, one of the write is suppressed
FetchToCache(cache_file, files, net, write_ok) ==
    IF net.kind = "raise" THEN [path |-> None, files |-> files]
    ELSE IF ~IsHttpOk(net.status_code) THEN [path |-> None, files |-> files]
    ELSE IF net.content = <<>> THEN [path |-> None, files |-> files]
    ELSE [path |-> Some(cache_file),
          files |-> IF write_ok THEN files \cup {cache_file} ELSE files]

\* _download_and_cache_image(url): the path returned, the cache directory
\* afterwards, and whether a request was made
_download_and_cache_imageAlwaysFetches(url, files, net, write_ok) ==
    [requested |-> TRUE] @@ FetchToCache(sha256(url), files, net, write_ok)

_download_and_cache_image(url, files, net, write_ok) ==
    IF sha256(url) \in files
    THEN [requested |-> FALSE, path |-> Some(sha256(url)), files |-> files]
    ELSE [requested |-> TRUE] @@ FetchToCache(sha256(url), files, net, write_ok)

\* lines 209-210: the thumbnails an image is looked for
WantsImage(thumb) ==
    /\ thumb # <<>>
    /\ StartsWith(thumb, HttpPrefix)
    /\ thumb \notin {<<"s", "e", "l", "f">>, <<"d", "e", "f", "a", "u", "l", "t">>}

\* lines 213-222: the image widget, when the file is there and the widget
\* could be built (_create_image_widget returns None when it could not)
ImageWidgets(got, widget_ok) ==
    IF IsSome(got.path) /\ TheValue(got.path) \in got.files /\ widget_ok
    THEN <<"Image">> ELSE <<>>

\* create_widgets_for_post(post) with its thumbnail: the widgets, the cache
\* directory afterwards, and whether a request was made
PostWidgets(thumbnail, files, net, write_ok, widget_ok) ==
    IF WantsImage(IF IsSome(thumbnail) THEN TheValue(thumbnail) ELSE <<>>)
    THEN [widgets |-> <<"Markdown:title">>
                      \o ImageWidgets(_download_and_cache_image(TheValue(thumbnail), files,
                                                                net, write_ok), widget_ok)
                      \o <<"Markdown:footer", "Static">>,
          files |-> _download_and_cache_image(TheValue(thumbnail), files, net, write_ok).files,
          requested |-> _download_and_cache_image(TheValue(thumbnail), files, net,
                                                  write_ok).requested]
    ELSE [widgets |-> create_widgets_for_post, files |-> files, requested |-> FALSE]

ThumbnailInit == DiskIdle

\* one post rendered
RenderPost ==
    \E thumbnail \in PostThumbnails, net \in ThumbNet, write_ok \in BOOLEAN,
       widget_ok \in BOOLEAN :
        LET post == PostWidgets(thumbnail, cache, net, write_ok, widget_ok)
        IN  /\ cache' = post.files
            /\ fetched' = IF post.requested /\ Downloaded(net)
                          THEN fetched \cup {TheValue(thumbnail)} ELSE fetched
            /\ thumbOp' = [op |-> "create_widgets_for_post", thumbnail |-> thumbnail,
                           requested |-> post.requested,
                           net |-> IF post.requested THEN Some(net) ELSE None,
                           hadDownload |-> IsSome(thumbnail) /\ TheValue(thumbnail) \in fetched,
                           wasCached |-> IsSome(thumbnail) /\ sha256(TheValue(thumbnail)) \in cache,
                           widgets |-> post.widgets]
            /\ UNCHANGED <<histFile, saveLog, savers, appVars, fetchVars, regVars,
                           redditVars, dbVars>>

ThumbnailNext == RenderPost

-----------------------------------------------------------------------------
(* The specifications *)

Init == AppInit /\ FetchIdle /\ RegIdle /\ RedditIdle /\ HistoryIdle /\ DiskIdle
Next == AppNext
Spec == Init /\ [][Next]_vars

InitFetch == AppIdle /\ FetchInit /\ RegIdle /\ RedditIdle /\ HistoryIdle /\ DiskIdle
NextFetch == FetchNext
SpecFetch == InitFetch /\ [][NextFetch]_vars

InitRegistry == AppIdle /\ FetchIdle /\ RegInit /\ RedditIdle /\ HistoryIdle /\ DiskIdle
NextRegistry == RegNext
SpecRegistry == InitRegistry /\ [][NextRegistry]_vars

InitRedditPath == AppIdle /\ FetchIdle /\ RegIdle /\ RedditPathInit /\ HistoryIdle /\ DiskIdle
NextRedditPath == RedditPathNext
SpecRedditPath == InitRedditPath /\ [][NextRedditPath]_vars

InitHistory == AppIdle /\ FetchIdle /\ RegIdle /\ RedditIdle /\ HistoryInit /\ DiskIdle
NextHistory == HistoryNext
SpecHistory == InitHistory /\ [][NextHistory]_vars

InitReddit == AppIdle /\ RedditInit /\ RegIdle /\ RedditIdle /\ HistoryIdle /\ DiskIdle
NextReddit == RedditNext
SpecReddit == InitReddit /\ [][NextReddit]_vars

InitFlatHistory == AppIdle /\ FetchIdle /\ RegIdle /\ RedditIdle /\ HistoryIdle /\ FlatHistoryInit
NextFlatHistory == FlatHistoryNext
SpecFlatHistory == InitFlatHistory /\ [][NextFlatHistory]_vars

InitHistorySearch == AppIdle /\ FetchIdle /\ RegIdle /\ RedditIdle /\ HistoryInit /\ DiskIdle
NextHistorySearch == HistorySearchNext
SpecHistorySearch == InitHistorySearch /\ [][NextHistorySearch]_vars

InitThumbnail == AppIdle /\ FetchIdle /\ RegIdle /\ RedditIdle /\ HistoryIdle /\ ThumbnailInit
NextThumbnail == ThumbnailNext
SpecThumbnail == InitThumbnail /\ [][NextThumbnail]_vars

InitHistoryRace == AppIdle /\ FetchIdle /\ RegIdle /\ RedditIdle /\ HistoryIdle /\ HistoryRaceInit
NextHistoryRace == HistoryRaceNext
SpecHistoryRace == InitHistoryRace /\ [][NextHistoryRace]_vars


-----------------------------------------------------------------------------
(* Claims checked under SpecFetch *)

FetchCalled == fFunc = "fetch_markdown" /\ IsSome(fResult)
UnknownCalled == fFunc = "handle_unknown" /\ IsSome(fResult)
FetchOutcome == TheValue(fResult)
NetWas == TheValue(fNet)

\* the document of a PageResult is empty: no markdown and no widgets
EmptyDocument(page) ==
    page.markdown = <<>> /\ ("widgets" \in DOMAIN page => page.widgets = <<>>)

\* s has ":", "/", "/" at three consecutive positions
HasSchemeSeparator(s) ==
    \E i \in 1..(Len(s) - 2) : s[i] = ":" /\ s[i + 1] = "/" /\ s[i + 2] = "/"

\* C2 (as claimed): for every input that is empty or only whitespace,
\* fetch_markdown returns a PageResult with status 0, error "Empty URL" and an
\* empty document, and issues no request.
C2_EmptyInputReturnsErrorResult ==
    (FetchCalled /\ Strip(fInput) = <<>>) =>
        /\ Returned(FetchOutcome)
        /\ FetchOutcome.value.status = 0
        /\ FetchOutcome.value.error = Some("Empty URL")
        /\ EmptyDocument(FetchOutcome.value)
        /\ fRequests = <<>>

\* C3: for every input that is non-empty once trimmed, the URL requested is the
\* trimmed input itself when that contains "://", and otherwise the default
\* scheme, "://" and the trimmed input, the scheme being prepended once; and
\* normalizing the normalized URL again gives it back.
C3_NormalizationPrependsSchemeOnce ==
    (FetchCalled /\ Strip(fInput) # <<>>) =>
        LET trimmed == Strip(fInput)
            prefix == fScheme \o SchemeSep
        IN  /\ Len(fRequests) = 1
            /\ HasSchemeSeparator(trimmed) => fRequests[1] = trimmed
            /\ ~HasSchemeSeparator(trimmed) =>
                  /\ fRequests[1] = prefix \o trimmed
                  /\ Occurrences(fRequests[1], prefix) = 1
            /\ NormalizeUrl(fRequests[1], fScheme) = fRequests[1]

C3_Witness ==
    /\ FetchCalled
    /\ Strip(fInput) # <<>>
    /\ Strip(fInput) # fInput
    /\ ~HasSchemeSeparator(fInput)
    /\ fRequests = <<fScheme \o SchemeSep \o Strip(fInput)>>

PlainUrl(url) ==
    /\ ~(\E i \in 1..Len(url) : url[i] = "\\")
    /\ ~((\E i \in 1..Len(url) : url[i] = "'") /\ (\E i \in 1..Len(url) : url[i] = "\""))

C9_OkResponseGivesMarkdownWidget ==
    (UnknownCalled /\ NetWas.kind = "response" /\ NetWas.ok) =>
        /\ Returned(FetchOutcome)
        /\ FetchOutcome.value.url = NetWas.url
        /\ FetchOutcome.value.widgets = <<Markdown(html_to_md(NetWas.text))>>

\* the content type has "html" in it, in any mix of upper and lower case
MentionsHtml(content_type) ==
    /\ IsSome(content_type)
    /\ \E i \in 1..(Len(TheValue(content_type)) - 3) :
          /\ TheValue(content_type)[i] \in {"h", "H"}
          /\ TheValue(content_type)[i + 1] \in {"t", "T"}
          /\ TheValue(content_type)[i + 2] \in {"m", "M"}
          /\ TheValue(content_type)[i + 3] \in {"l", "L"}

\* C10: for every response fetch_markdown receives, the result has the
\* response's final URL and status and no error, and its document is the
\* markdown conversion of the body exactly when the content type contains "html"
\* in any case; otherwise (a missing content type included) it is the body
\* between code fences.
C10_ResponseClassifiedByContentType ==
    (FetchCalled /\ IsSome(fNet) /\ NetWas.kind = "response") =>
        /\ Returned(FetchOutcome)
        /\ FetchOutcome.value.url = NetWas.url
        /\ FetchOutcome.value.status = NetWas.status_code
        /\ IsNone(FetchOutcome.value.error)
        /\ MentionsHtml(NetWas.content_type) =>
              FetchOutcome.value.markdown = html_to_md(NetWas.text)
        /\ ~MentionsHtml(NetWas.content_type) =>
              FetchOutcome.value.markdown =
                  CodeFence \o <<"\n">> \o NetWas.text \o <<"\n">> \o CodeFence

C10_Witness ==
    /\ FetchCalled
    /\ IsSome(fNet)
    /\ NetWas.kind = "response"
    /\ NetWas.content_type = Some(<<"T", "E", "X", "T", "/", "H", "T", "M", "L">>)
    /\ NetWas.status_code = 404
    /\ Returned(FetchOutcome)
    /\ FetchOutcome.value.markdown = html_to_md(<<"x">>)


-----------------------------------------------------------------------------
(* Claims checked under SpecRegistry *)

\* the lookup the specification describes: the exact domain, else, for a domain
\* of more than two labels, the domain without its leftmost label, tried once
StrippingLookup(reg, domain) ==
    IF domain \in DOMAIN reg THEN Some(reg[domain])
    ELSE IF Len(domain) > 2 /\ Tail(domain) \in DOMAIN reg THEN Some(reg[Tail(domain)])
    ELSE None

\* C4 (as claimed): a registry lookup returns the handler registered under
\* exactly that domain, else, when the domain has more than two labels, the
\* handler registered under the domain without its leftmost label, else no
\* handler.
C4_LookupStripsLeftmostLabel ==
    lookup.op = "get_interaction" =>
        lookup.outcome = Return(StrippingLookup(registry, lookup.domain))

\* the handlers of the list that are not the generic one and can handle host
SiteSpecificAble(host) ==
    {i \in 1..Len(HANDLERS) : HANDLERS[i] # "UnknownHandler" /\ can_handle(HANDLERS[i], host)}

\* C5: handler selection always selects a handler of the list; a lookup of a
\* domain that was never registered answers None and does not fail; the generic
\* handler is selected exactly when no site-specific handler can handle the URL,
\* and it is consulted only after every site-specific handler.
C5_SelectionTotalGenericLast ==
    /\ lookup.op = "get_site_handler" =>
          /\ \E i \in 1..Len(HANDLERS) : HANDLERS[i] = lookup.handler
          /\ (lookup.handler = "UnknownHandler") = (SiteSpecificAble(lookup.host) = {})
          /\ \A i \in 1..Len(lookup.consulted) :
                lookup.consulted[i] = "UnknownHandler" =>
                    \A j \in 1..Len(HANDLERS) :
                        HANDLERS[j] # "UnknownHandler" =>
                            \E k \in 1..(i - 1) : lookup.consulted[k] = HANDLERS[j]
    /\ lookup.op = "get_interaction" =>
          /\ Returned(lookup.outcome)
          /\ lookup.domain \notin DOMAIN registry => lookup.outcome.value = None

C5_Witness ==
    /\ lookup.op = "get_site_handler"
    /\ lookup.host = <<"www", "example", "com">>
    /\ lookup.handler = "UnknownHandler"
    /\ lookup.consulted = <<"RedditHandler", "UnknownHandler">>

\* the handler of the last registration of domain in the log, None if none
RECURSIVE LastRegistered(_, _)
LastRegistered(log, domain) ==
    IF log = <<>> THEN None
    ELSE IF log[Len(log)][1] = domain THEN Some(log[Len(log)][2])
    ELSE LastRegistered(SubSeq(log, 1, Len(log) - 1), domain)

\* C6: after any sequence of registrations, the lookup of each domain returns
\* the handler of the last registration made for that domain (None if there was
\* none), whatever was registered for other domains before or after it, and the
\* registry holds exactly the domains registered.
C6_LastRegistrationWins ==
    /\ \A d \in LookupDomains :
          get_interaction(registry, d) = Return(LastRegistered(regLog, d))
    /\ DOMAIN get_all_interactions(registry) = {regLog[i][1] : i \in 1..Len(regLog)}

C6_Witness ==
    /\ Len(regLog) = 3
    /\ regLog[1] = <<<<"reddit", "com">>, "handle_other">>
    /\ regLog[2] = <<<<"example", "com">>, "handle_other">>
    /\ regLog[3] = <<<<"reddit", "com">>, "handle_reddit">>
    /\ get_interaction(registry, <<"reddit", "com">>) = Return(Some("handle_reddit"))
    /\ get_interaction(registry, <<"example", "com">>) = Return(Some("handle_other"))

-----------------------------------------------------------------------------
(* Claims checked under Spec *)

\* C1 (as claimed): every URL submission stores the fetch result, failed or
\* not, as the active tab's entry, and records the result's URL in the history
\* exactly when the result has no error; with an error the history is unchanged.
C1_SubmissionStoresResultAndRecordsSuccess ==
    [][lastOp'.op = "on_input_submitted" =>
          /\ appState' = "running"
          /\ IsSome(current_page')
          /\ IsSome(active) => tab_content'[TheValue(active)] = current_page'
          /\ IsNone(TheValue(current_page').error) =>
                /\ history' # <<>>
                /\ history'[1] = TheValue(current_page').url
          /\ IsSome(TheValue(current_page').error) => history' = history]_vars

OpenTabs == TabIds(tabs)
StoredTabs == DOMAIN tab_content
Opened == lastOp'.op = "action_new_tab" /\ tabs' # tabs
Closed == lastOp'.op = "action_close_tab" /\ tabs' # tabs
Fetched == lastOp'.op \in {"on_input_submitted", "action_refresh"} /\ appState' = "running"

StoreMatchesOpenTabs == StoredTabs = OpenTabs

OpenAddsCloseRemoves ==
    /\ Opened => \E id \in TabIds(tabs') \ OpenTabs :
                    /\ TabIds(tabs') = OpenTabs \cup {id}
                    /\ DOMAIN tab_content' = StoredTabs \cup {id}
                    /\ tab_content'[id] = None
    /\ Closed => /\ IsSome(active)
                 /\ TabIds(tabs') = OpenTabs \ {TheValue(active)}
                 /\ DOMAIN tab_content' = StoredTabs \ {TheValue(active)}
    /\ Fetched => DOMAIN tab_content' = StoredTabs

\* C24: the ids stored in tab_content are exactly the ids of the open tabs;
\* opening a tab adds its id with the placeholder None, closing a tab removes
\* the closed tab's id, and a fetch adds and removes none.
C24_StoreHoldsExactlyOpenTabs == []StoreMatchesOpenTabs /\ [][OpenAddsCloseRemoves]_vars

C24_Witness ==
    /\ lastOp.op = "action_close_tab"
    /\ tabCounter = 3
    /\ Len(tabs) = 1
    /\ StoredTabs = {3}
    /\ IsSome(tab_content[3])

StoreChanged == tab_content' # tab_content

OtherTabsKept ==
    StoreChanged =>
        \A t \in StoredTabs :
            (IsNone(active) \/ t # TheValue(active)) =>
                /\ t \in DOMAIN tab_content'
                /\ tab_content'[t] = tab_content[t]

\* C25: a step that changes tab_content (a submission, a refresh, either of
\* them failed or not, a close, a new tab) changes at most the entry of the
\* tab that was active; the entry of every other tab stays in the store with
\* the result it had.
C25_OtherTabsUntouched == [][OtherTabsKept]_vars

C25_Witness ==
    /\ lastOp.op = "action_close_tab"
    /\ tabCounter = 2
    /\ Len(tabs) = 1
    /\ tabs[1].id = 1
    /\ IsSome(tab_content[1])
    /\ IsNone(TheValue(tab_content[1]).error)

\* the handler that ran last ended with a failed result for the active tab
FetchFailed(ops) ==
    /\ appState = "running"
    /\ lastOp.op \in ops
    /\ IsSome(active)
    /\ IsSome(current_page)
    /\ Truthy(TheValue(current_page).error)

ShowsError(page_result) == content = ErrorContent(TheValue(page_result.error))

\* C26: after a submission or a refresh whose fetch failed, the Markdown
\* widget shows the error message built from the result's error text.
C26_FailedFetchShowsError ==
    FetchFailed({"on_input_submitted", "action_refresh"}) => ShowsError(TheValue(current_page))

\* C26, submissions and tab switches only: a failed submission shows the
\* error message, and so does every switch to a tab whose stored result failed
C26_FailedSubmissionShowsError ==
    FetchFailed({"on_input_submitted", "action_next_tab", "action_previous_tab"})
        => ShowsError(TheValue(current_page))

\* the result stored for the active tab: None without an active tab
ActiveStored == IF IsSome(active) THEN ContentOf(tab_content, TheValue(active)) ELSE None

HandlerCompleted ==
    /\ appState = "running"
    /\ lastOp.op \in {"action_next_tab", "action_previous_tab", "action_close_tab",
                      "action_new_tab", "on_input_submitted", "action_refresh"}

\* C29 (as claimed): after every completed handler current_page is the
\* result stored for the active tab, None when there is none or no tab is open.
C29_CurrentPageIsActiveTabsResult == HandlerCompleted => current_page = ActiveStored

\* C29, with a tab open: after every completed handler current_page is the
\* result stored for the active tab
C29_CurrentPageIsActiveTabsResultWithTab ==
    (HandlerCompleted /\ IsSome(active)) => current_page = ActiveStored

\* C30: no two open tabs carry the same label "Tab N"
C30_OpenTabLabelsDistinct ==
    \A i, j \in 1..Len(tabs) : tabs[i].label = tabs[j].label => i = j

-----------------------------------------------------------------------------
(* Claims checked under SpecRedditPath *)

\* the non-empty path segments of a URL as the URL is written: the scheme and
\* the authority are set aside, the path ends at the first "?" or "#"
UrlSegments(url) ==
    LET colon == Find(url, ":", 1)
        u1    == IF colon > 1 /\ Find(url, "/", 1) > colon THEN From(url, colon + 1) ELSE url
        hasA  == Len(u1) >= 2 /\ SubSeq(u1, 1, 2) = <<"/", "/">>
        delim == IF hasA THEN FindAny(u1, {"/", "?", "#"}, 3) ELSE 0
        u2    == IF ~hasA THEN u1 ELSE IF delim = 0 THEN <<>> ELSE From(u1, delim)
        stop  == FindAny(u2, {"?", "#"}, 1)
        path  == IF stop = 0 THEN u2 ELSE SubSeq(u2, 1, stop - 1)
    IN  SelectSeq(SplitOn(path, "/"), LAMBDA p : p # <<>>)

\* the classification the claim gives to a list of segments
ClaimedComponents(segs) ==
    CASE segs = <<>> -> RedditPathComponents(None, None, "home")
      [] segs # <<>> /\ segs[1] = <<"r">> /\ Len(segs) = 1 ->
            RedditPathComponents(None, None, "unknown")
      [] segs # <<>> /\ segs[1] = <<"r">> /\ Len(segs) >= 4 /\ segs[3] = <<"comments">> ->
            RedditPathComponents(Some(segs[2]), Some(segs[4]), "post")
      [] segs # <<>> /\ segs[1] = <<"r">> /\ Len(segs) >= 2
            /\ ~(Len(segs) >= 4 /\ segs[3] = <<"comments">>) ->
            RedditPathComponents(Some(segs[2]), None, "subreddit")
      [] segs # <<>> /\ segs[1] = <<"comments">> /\ Len(segs) >= 2 ->
            RedditPathComponents(None, Some(segs[2]), "post")
      [] OTHER -> RedditPathComponents(None, None, "unknown")

PathCalled == IsSome(rUrl) /\ IsSome(rComps)
JsonCalled == IsSome(rComps) /\ IsSome(rJson)
Classified == TheValue(rComps).value

\* C11: get_reddit_path returns for every URL, and what it returns is the
\* classification of the URL's non-empty path segments by the six cases;
\* post_id is set exactly for a post and subreddit is set for a subreddit.
C11_ClassificationTotalBySegments ==
    PathCalled =>
        /\ Returned(TheValue(rComps))
        /\ Classified = ClaimedComponents(UrlSegments(TheValue(rUrl)))
        /\ IsSome(Classified.post_id) <=> Classified.type = "post"
        /\ Classified.type = "subreddit" => IsSome(Classified.subreddit)

\* C11 without its two failing cases: for a URL whose host has no unmatched
\* bracket the function returns, and for one that also has no ";" in its last
\* path segment it returns the classification of the segments.
C11_ClassificationOfParsedPath ==
    PathCalled =>
        LET url == TheValue(rUrl)
        IN  /\ Raised(TheValue(rComps)) <=> Contains(url, <<"/", "/", "[">>)
            /\ Returned(TheValue(rComps)) =>
                  /\ ~Contains(url, <<";">>) =>
                        Classified = ClaimedComponents(UrlSegments(url))
                  /\ IsSome(Classified.post_id) <=> Classified.type = "post"
                  /\ Classified.type = "subreddit" => IsSome(Classified.subreddit)

JsonPath(path) == Some(RedditBase \o path \o <<".json">>)

\* C12: the JSON URL is on https://old.reddit.com and follows the table from
\* the components alone; there is none exactly for unknown or for a
\* subreddit/post without its required field, so every classification of a
\* URL other than unknown has one.
C12_EndpointFollowsTable ==
    JsonCalled =>
        LET c == Classified
            j == TheValue(rJson)
            s == TheValue(c.subreddit)
            p == TheValue(c.post_id)
        IN  /\ c.type = "home" => j = JsonPath(<<"/">>)
            /\ (c.type = "subreddit" /\ TruthyStr(c.subreddit)) =>
                  j = JsonPath(<<"/", "r", "/">> \o s)
            /\ (c.type = "post" /\ TruthyStr(c.post_id) /\ TruthyStr(c.subreddit)) =>
                  j = JsonPath(<<"/", "r", "/">> \o s \o <<"/", "comments", "/">> \o p)
            /\ (c.type = "post" /\ TruthyStr(c.post_id) /\ ~TruthyStr(c.subreddit)) =>
                  j = JsonPath(<<"/", "comments", "/">> \o p)
            /\ IsNone(j) <=> (\/ c.type = "unknown"
                               \/ (c.type = "subreddit" /\ ~TruthyStr(c.subreddit))
                               \/ (c.type = "post" /\ ~TruthyStr(c.post_id)))
            /\ (IsSome(rUrl) /\ c.type # "unknown") => IsSome(j)

C12_Witness ==
    /\ JsonCalled
    /\ IsSome(rUrl)
    /\ Classified.type = "post"
    /\ IsNone(Classified.subreddit)
    /\ TheValue(rJson) = JsonPath(<<"/", "comments", "/", "a">>)

-----------------------------------------------------------------------------
(* Claims checked under SpecReddit *)

RedditCalled == fFunc = "handle_reddit" /\ IsSome(fResult)
SitesRedditCalled == fFunc = "sites.handle_reddit" /\ IsSome(fResult)
RedditOutcome == TheValue(fResult)
RedditResult == TheValue(fResult).value
GotResponse == IsSome(fNet) /\ TheValue(fNet).kind = "response"
NetworkFailed == IsSome(fNet) /\ TheValue(fNet).kind = "raise"
WidgetsOf(page) == Get(page, "widgets", <<>>)

\* the kind of the (trimmed) URL by the classification table
KindOf(url) == ClaimedComponents(UrlSegments(Strip(url))).type

\* the URL's path maps to no JSON endpoint: its classification is unknown
Unmappable(url) == KindOf(url) = "unknown"

\* C13: for a URL that maps to no JSON endpoint handle_reddit returns a
\* PageResult with error set, status 0 and an empty document, and no request
\* is issued.
C13_NoEndpointFailsWithoutRequest ==
    (RedditCalled /\ Unmappable(fInput)) =>
        /\ Returned(RedditOutcome)
        /\ Truthy(RedditResult.error)
        /\ RedditResult.status = 0
        /\ RedditResult.markdown = <<>>
        /\ WidgetsOf(RedditResult) = <<>>
        /\ fRequests = <<>>
        /\ IsNone(fNet)

C13_Witness ==
    /\ RedditCalled
    /\ Unmappable(fInput)
    /\ Returned(RedditOutcome)
    /\ RedditResult.error = Some(CouldNotDetermine)

ValidJson(text) == \E v \in JsonValues : json_dumps(v) = text

\* the JSON value has the shape expected for the kind: a Listing object for
\* home and subreddit, a list whose first Listing holds the post for post
ExpectedShape(kind, v) ==
    \/ kind \in {"home", "subreddit"} /\ v.t = "object"
          /\ v.shape \in {"listing0", "listing1"}
    \/ kind = "post" /\ v.t = "array" /\ v.items # <<>>
          /\ v.items[1].shape = "listing1"

\* C15: for a 200 response, a body that is not valid JSON gives the
\* invalid-JSON error and a valid JSON body of another shape than the kind
\* expects gives the schema-mismatch error; neither leaves error unset.
C15_BadBodyGivesDistinctErrors ==
    (RedditCalled /\ GotResponse /\ Returned(RedditOutcome)
       /\ TheValue(fNet).status_code = 200) =>
        LET text == TheValue(fNet).text
            kind == KindOf(fInput)
        IN  /\ ~ValidJson(text) => RedditResult.error = Some(InvalidJson)
            /\ (ValidJson(text) /\ ~ExpectedShape(kind, json_loads(text).value)) =>
                  RedditResult.error = Some(FailedToParse)

\* C16: handle_reddit returns a PageResult whatever the URL and the network
\* do, and the result's status is 0 only when the request itself failed.
C16_RedditHandlerTotal ==
    RedditCalled =>
        /\ Returned(RedditOutcome)
        /\ RedditResult.status = 0 => NetworkFailed

\* C16 without its failing cases: for a URL that is not blank and whose host
\* has no unmatched bracket handle_reddit returns, with status 0 when the
\* request failed or when the URL maps to no endpoint, and only then.
C16_RedditHandlerTotalOnParsedUrls ==
    (RedditCalled /\ Strip(fInput) # <<>> /\ ~Contains(fInput, <<"/", "/", "[">>)) =>
        /\ Returned(RedditOutcome)
        /\ RedditResult.status = 0 <=> (NetworkFailed \/ Unmappable(fInput))

\* C17: a returned PageResult with error set has an empty document, and one
\* with error unset has exactly one of markdown and widgets populated.
C17_ErrorMeansEmptyDocument ==
    (IsSome(fResult) /\ Returned(RedditOutcome)) =>
        /\ IsSome(RedditResult.error) =>
              (RedditResult.markdown = <<>> /\ WidgetsOf(RedditResult) = <<>>)
        /\ IsNone(RedditResult.error) =>
              ((RedditResult.markdown # <<>>) # (WidgetsOf(RedditResult) # <<>>))

-----------------------------------------------------------------------------
(* Claims checked under SpecHistory *)

EntriesOf(rows, url) == {r \in rows : r.url = url}
Recorded == histOp.op = "save_url_to_history"
IsPrefix(s, t) == Len(s) <= Len(t) /\ SubSeq(t, 1, Len(s)) = s

\* a step of save_url_to_history: the only steps that change the table
RecordStep == db' # db

OneEntryPerUrl == \A url \in HistoryUrls : Cardinality(EntriesOf(db, url)) <= 1

RecordUpserts ==
    RecordStep =>
        LET url  == histOp'.url
            now  == histOp'.now
            old  == EntriesOf(db, url)
            mine == EntriesOf(db', url)
        IN  /\ Cardinality(mine) = 1
            /\ \A r \in db' : r.url = url \/ r \in db
            /\ \A r \in mine :
                  /\ old = {} => date_visited(r) = <<now>>
                  /\ \A o \in old : /\ r.id = o.id
                                     /\ date_visited(r) = Append(date_visited(o), now)

\* C18: the table never holds two entries with the same URL; recording a URL
\* that has an entry adds no entry and appends one visit timestamp to that
\* entry, recording a new URL adds exactly one entry with a single visit.
C18_OneEntryPerUrlUpsert == []OneEntryPerUrl /\ [][RecordUpserts]_vars

C18_Witness ==
    /\ Recorded
    /\ histOp.existed
    /\ \E r \in EntriesOf(db, histOp.url) : Len(date_visited(r)) = 2

VisitsOrdered ==
    \A r \in db :
        LET v == date_visited(r)
        IN  /\ Len(v) >= 1
            /\ \A i \in 1..(Len(v) - 1) : v[i] <= v[i + 1]
            /\ v[1] = r.created_at
            /\ v[Len(v)] = r.updated_at

VisitsOnlyGrow ==
    \A old \in db : \A r \in db' :
        r.id = old.id => IsPrefix(date_visited(old), date_visited(r))

\* C19: an entry's visit timestamps are non-decreasing, the first is its
\* created_at and the last its updated_at, and a step changes the list of an
\* entry only by appending at its end.
C19_VisitsAppendOnlyOrdered == []VisitsOrdered /\ [][VisitsOnlyGrow]_vars

C19_Witness ==
    \E r \in db :
        /\ Len(date_visited(r)) = 3
        /\ date_visited(r)[1] < date_visited(r)[3]
        /\ r.created_at < r.updated_at

NothingExpiredLeft ==
    Recorded =>
        /\ \A r \in db : r.updated_at >= histOp.cutoff
        /\ EntriesOf(db, histOp.url) # {}
        /\ histOp.url \notin histOp.removed

PruneKeepsWindow ==
    RecordStep =>
        \A old \in db :
            (old.updated_at >= histOp'.cutoff /\ old.url # histOp'.url) => old \in db'

-----------------------------------------------------------------------------
(* Claims checked under SpecHistorySearch *)

Searched == histOp.op = "get_matching_history"

\* two characters that differ at most in case
CasePairs == {<<"h", "H">>, <<"t", "T">>, <<"m", "M">>, <<"e", "E">>, <<"x", "X">>}
SameLetter(a, b) == a = b \/ <<a, b>> \in CasePairs \/ <<b, a>> \in CasePairs

ContainsIgnoringCase(text, query) ==
    \E start \in 0..(Len(text) - Len(query)) :
        \A j \in 1..Len(query) : SameLetter(text[start + j], query[j])

Wanted(query) ==
    {r \in db : query = <<>> \/ ContainsIgnoringCase(r.url, query)
                              \/ ContainsIgnoringCase(r.title, query)}

SearchAnswersQuery ==
    Searched =>
        LET result == histOp.result
            found  == {result[i] : i \in DOMAIN result}
            wanted == Wanted(histOp.query)
        IN  /\ found \subseteq wanted
            /\ Cardinality(found) = Len(result)
            /\ Len(result) = IF histOp.limit < Cardinality(wanted)
                              THEN histOp.limit ELSE Cardinality(wanted)
            /\ \A i \in 1..(Len(result) - 1) :
                   result[i].updated_at >= result[i + 1].updated_at
            /\ \A r \in wanted \ found : \A f \in found : r.updated_at <= f.updated_at

SearchLeavesStore == (histOp' # histOp /\ histOp'.op = "get_matching_history") => db' = db

\* C21: get_matching_history(query, limit) returns, without repetition, the
\* entries whose URL or title contains the query whatever the case of the
\* letters (every entry for the empty query), most recently updated first,
\* cut to the limit most recent ones; the call leaves the table as it was.
C21_MatchingHistoryRecentFirst == []SearchAnswersQuery /\ [][SearchLeavesStore]_vars

C21_Witness ==
    /\ Searched
    /\ histOp.query = <<"M">>
    /\ histOp.limit = 2
    /\ Len(histOp.result) = 2
    /\ histOp.result[1].updated_at > histOp.result[2].updated_at
    /\ \E i \in 1..2 : ~ContainsIgnoringCase(histOp.result[i].url, <<"M">>)

-----------------------------------------------------------------------------
(* Claims checked under SpecFlatHistory *)

\* the list an application reads from the file
FlatList == load_history(histFile)

Saved == {saveLog[i] : i \in 1..Len(saveLog)}
LastSave(url) == SetMax({i \in 1..Len(saveLog) : saveLog[i] = url})
Listed(l) == {l[i] : i \in 1..Len(l)}
NoRepeats(l) == \A i, j \in 1..Len(l) : l[i] = l[j] => i = j
NewestFirst(l) == \A i, j \in 1..Len(l) : i < j => LastSave(l[i]) > LastSave(l[j])
Without(l, url) == SelectSeq(l, LAMBDA u : u # url)
SaveStep == saveLog' # saveLog
SavedNow == saveLog'[Len(saveLog')]

RecentFirstNoRepeats ==
    /\ Listed(FlatList) \subseteq Saved
    /\ NoRepeats(FlatList)
    /\ NewestFirst(FlatList)
    /\ saveLog # <<>> => (FlatList # <<>> /\ FlatList[1] = saveLog[Len(saveLog)])
    /\ Len(FlatList) = (IF Cardinality(Saved) < HistoryLimit THEN Cardinality(Saved)
                        ELSE HistoryLimit)
    /\ \A u \in Saved \ Listed(FlatList) : \A l \in Listed(FlatList) : LastSave(u) < LastSave(l)

ResaveMovesToFront ==
    (SaveStep /\ SavedNow \in Listed(FlatList)) =>
        load_history(histFile') = <<SavedNow>> \o Without(FlatList, SavedNow)

LimitKept ==
    /\ Len(FlatList) <= HistoryLimit
    /\ saveLog # <<>> => saveLog[Len(saveLog)] \in Listed(FlatList)

DropsOldest ==
    SaveStep =>
        LET before  == Listed(FlatList)
            after   == Listed(load_history(histFile'))
            dropped == before \ after
        IN  /\ after \subseteq before \cup {SavedNow}
            /\ SavedNow \in after
            /\ dropped # {} => Cardinality(before \cup {SavedNow}) > HistoryLimit
            /\ \A d \in dropped : \A k \in after \ {SavedNow} : LastSave(d) < LastSave(k)

-----------------------------------------------------------------------------
(* Claims checked under SpecThumbnail *)

Rendered == thumbOp.op = "create_widgets_for_post"
HasImage == \E i \in 1..Len(thumbOp.widgets) : thumbOp.widgets[i] = "Image"
PostShown ==
    /\ thumbOp.widgets[1] = "Markdown:title"
    /\ thumbOp.widgets[Len(thumbOp.widgets)] = "Static"
    /\ thumbOp.widgets[Len(thumbOp.widgets) - 1] = "Markdown:footer"
DownloadFailed == thumbOp.requested /\ ~Downloaded(TheValue(thumbOp.net))

\* a failed download still gives the post, without an image
FailureIsSilent ==
    /\ PostShown
    /\ DownloadFailed => ~HasImage
    /\ HasImage => sha256(TheValue(thumbOp.thumbnail)) \in cache

-----------------------------------------------------------------------------
(* Claims checked under SpecHistoryRace *)

BothDone == \A p \in Procs : savers[p].pc = "done"
DifferentUrls == savers[1].url # savers[2].url
LimitNotReached == Cardinality({saveLog[i] : i \in 1..Len(saveLog)}) <= HistoryLimit

\* C28: when two calls for different URLs have both completed and the limit
\* is not reached, the list read from the file holds both URLs and every URL
\* the file held before, however the steps of the two calls interleaved.
C28_ConcurrentSavesKeepBoth ==
    (BothDone /\ DifferentUrls /\ LimitNotReached) =>
        \A i \in 1..Len(saveLog) : InList(load_history(histFile), saveLog[i])

====
